---- MODULE Spec2Model ----
(***************************************************************************)
(* A model of the read-only FAT16/FAT32 layer of Tilck                     *)
(* (src/common/fat32_base.c): the long-name reassembler, the directory     *)
(* walker, the path resolver and the whole-file reader, over small volume  *)
(* images whose directory slots are kept as their 32 raw bytes.            *)
(***************************************************************************)
EXTENDS Integers, Sequences, FiniteSets, TLC

VARIABLES
  hdr,       \* the BPB fields the code reads (struct fat_header)
  ft,        \* the fat type the caller passes (enum fat_type)
  dirs,      \* region -> sequence of 32-byte slots; region 0 is the flat FAT16 root
  fat,       \* cluster -> the value stored in FAT number 0
  cbmode,    \* which callback the walk runs with: "record" or "search"
  wpc,       \* position of fat_walk_directory: "idle", "slots", "ret", "panic"
  entry,     \* the walker's local 'entry': a pointer <<region, slot>> or NULL
  cluster,   \* the walker's local 'cluster'
  wi,        \* the walker's slot index 'i'
  ctx,       \* fat_walk_dir_ctx
  cblog,     \* history: the callback invocations, in order
  fatreads,  \* history: the cluster numbers passed to fat_read_fat_entry
  spc,       \* position of fat_search_entry: "idle", "call", "walk", "done"
  abspath,   \* the path given to fat_search_entry
  sctx,      \* fat_search_ctx
  err,       \* the caller's int that 'err' points to
  errset,    \* history: fat_search_entry has stored into *err
  sret,      \* the pointer fat_search_entry returned
  todo,      \* the paths the caller resolves after this one
  done,      \* history: the calls of fat_search_entry that returned
  walks,     \* history: the walks fat_search_entry has started for abspath
  data,      \* cluster -> the bytes of its data
  rpc,       \* position of fat_read_whole_file: "idle", "loop", "ret", "panic"
  rentry,    \* the directory entry given to fat_read_whole_file
  dest,      \* the caller's buffer dest_buf, dest_buf_size bytes
  written,   \* the reader's local 'written'
  rcluster,  \* the reader's local 'cluster'
  copies,    \* history: the memmove calls, as [cluster, at, len]
  tpc,       \* position of a call of fat_get_type: "idle", "ret"
  npc,       \* position of a call of fat_get_short_name: "idle", "ret"
  nentry,    \* the directory entry given to fat_get_short_name
  destbuf,   \* the buffer fat_get_short_name writes to
  upc,       \* position of fat_get_used_bytes: "idle", "loop", "ret", "panic"
  uclusterN, \* the local 'clusterN' of fat_get_used_bytes
  used,      \* what fat_get_used_bytes returned
  wret,      \* what fat_walk_directory returned; "none" before it returns
  handles,   \* curr->pi->handles: the file descriptors of the process
  preempt,   \* the nesting count of disable_preemption()
  curr,      \* the thread the processor runs
  objs,      \* the handle objects exvfs_open made, by handle
  task,      \* each thread's position in its system call and its locals
  ncalls     \* the number of system calls begun

volVars == <<hdr, ft, dirs, fat>>
walkVars == <<cbmode, wpc, entry, cluster, wi, ctx, cblog, fatreads, wret>>
searchVars == <<spc, abspath, sctx, err, errset, sret, todo, done, walks>>
readVars == <<data, rpc, rentry, dest, written, rcluster, copies>>
typeVars == <<tpc>>
nameVars == <<npc, nentry, destbuf>>
usedVars == <<upc, uclusterN, used>>
sysVars == <<handles, preempt, curr, objs, task, ncalls>>
vars == <<hdr, ft, dirs, fat, cbmode, wpc, entry, cluster, wi, ctx, cblog,
          fatreads, spc, abspath, sctx, err, errset, sret, todo, done,
          data, rpc, rentry, dest, written, rcluster, copies,
          tpc, npc, nentry, destbuf, upc, uclusterN, used, wret,
          handles, preempt, curr, objs, task, ncalls>>

\* the system calls are not in use
SysOff ==
  /\ handles = <<>>
  /\ preempt = 0
  /\ curr = "none"
  /\ objs = <<>>
  /\ task = <<>>
  /\ ncalls = 0

-----------------------------------------------------------------------------
(* Bounds of the model.                                                    *)

\* the longest directory layout, in items (an item is one short entry with
\* its long-name run, one deleted slot or one volume label), not counting a
\* plain file the layout may start with
MaxItems == 2

\* the longest path given to the resolver, in components
MaxDepth == 3

\* the largest file read, in clusters
MaxFileClusters == 3

\* the longest directory walked, in clusters
MaxDirClusters == 3

\* the most clusters in use on a volume whose used bytes are asked for
MaxUsedClusters == 8

\* the most FAT entries one walk reads before it is left alone (a chain that
\* is a cycle never ends)
MaxFatReads == 5

-----------------------------------------------------------------------------
(* Values and small helpers.                                               *)

\* the null pointer, for entries and for long names
NULL == <<-1>>

fat16_type == "fat16"
fat32_type == "fat32"
fat12_type == "fat12"
fat_unknown == "unknown"

ENOENT == 2
ENOTDIR == 20

\* sizeof(ctx->lname_buf)
LNameBufSize == 256

Bit(v, k) == (v \div (2 ^ k)) % 2 = 1

Zeros(n) == [j \in 1..n |-> 0]

RECURSIVE Flatten(_)
Flatten(ss) == IF ss = <<>> THEN <<>> ELSE Head(ss) \o Flatten(Tail(ss))

\* the C string stored at the start of a byte buffer: the bytes before the first NUL
RECURSIVE CStr(_)
CStr(buf) ==
  IF buf = <<>> \/ Head(buf) = 0 THEN <<>> ELSE <<Head(buf)>> \o CStr(Tail(buf))

tolower(c) == IF c >= 65 /\ c <= 90 THEN c + 32 ELSE c

\* strcmp on NUL-terminated buffers: 0 iff the two C strings are equal
RECURSIVE strcmp(_, _)
strcmp(a, b) ==
  LET ca == IF a = <<>> THEN 0 ELSE Head(a)
      cb == IF b = <<>> THEN 0 ELSE Head(b)
  IN  IF ca # cb THEN ca - cb
      ELSE IF ca = 0 THEN 0
      ELSE strcmp(Tail(a), Tail(b))

\* stricmp: strcmp after lowering both sides
RECURSIVE stricmp(_, _)
stricmp(a, b) ==
  LET ca == tolower(IF a = <<>> THEN 0 ELSE Head(a))
      cb == tolower(IF b = <<>> THEN 0 ELSE Head(b))
  IN  IF ca # cb THEN ca - cb
      ELSE IF ca = 0 THEN 0
      ELSE stricmp(Tail(a), Tail(b))

\* str_reverse(buf, n): the first n bytes of buf in reverse order, the rest kept
str_reverse(buf, n) ==
  [j \in 1..Len(buf) |-> IF j <= n THEN buf[n + 1 - j] ELSE buf[j]]

-----------------------------------------------------------------------------
(* The 32-byte directory slot (fat_entry / fat_long_entry overlay).        *)

DIR_Name(e) == SubSeq(e, 1, 11)
DIR_Attr(e) == e[12]
DIR_NTRes(e) == e[13]
DIR_FstClusHI(e) == e[21] + 256 * e[22]
DIR_FstClusLO(e) == e[27] + 256 * e[28]
DIR_FileSize(e) == e[29] + 256 * e[30] + 65536 * e[31] + 16777216 * e[32]

LDIR_Ord(e) == e[1]
LDIR_Name1(e) == SubSeq(e, 2, 11)
LDIR_Chksum(e) == e[14]
LDIR_Name2(e) == SubSeq(e, 15, 26)
LDIR_Name3(e) == SubSeq(e, 29, 32)

\* the attribute bitfields of fat_entry
volume_id(e) == Bit(DIR_Attr(e), 3)
directory(e) == Bit(DIR_Attr(e), 4)

\* DIR_Attr == (read-only | hidden | system | volume-id)
is_long_name_entry(e) == DIR_Attr(e) = 15

fat_get_first_cluster(e) == DIR_FstClusHI(e) * 65536 + DIR_FstClusLO(e)

FAT_ENTRY_DIRNAME_NO_MORE_ENTRIES == 0
FAT_ENTRY_DIRNAME_EMPTY_DIR == 229

FAT_ENTRY_NTRES_BASE_LOW_CASE == 8
FAT_ENTRY_NTRES_EXT_LOW_CASE == 16

-----------------------------------------------------------------------------
(* shortname_checksum and the filename whitelist.                          *)

shortname_checksum(shortname) ==
  LET sum[i \in 0..11] ==
        IF i = 0 THEN 0
        ELSE ((IF sum[i-1] % 2 = 1 THEN 128 ELSE 0) + (sum[i-1] \div 2)
              + shortname[i]) % 256
  IN  sum[11]

fat32_valid_chars ==
  (35..41) \cup (43..46) \cup (48..57) \cup {59, 61} \cup (64..91)
  \cup (93..123) \cup {125, 126}

fat32_is_valid_filename_character(c) == c \in fat32_valid_chars

-----------------------------------------------------------------------------
(* fat_handle_long_dir_entry.                                              *)

\* seq with the byte at position k (1-based) set to v, zero-extended if shorter
StoreAt(seq, k, v) ==
  IF k <= Len(seq) THEN [seq EXCEPT ![k] = v]
  ELSE seq \o Zeros(k - Len(seq) - 1) \o <<v>>

\* ctx->lname_buf[idx] = v.  An index past the end of lname_buf lands in the
\* memory that follows the array, kept in c.past.
StoreByte(c, idx, v) ==
  IF idx < LNameBufSize
    THEN [c EXCEPT !.lname_buf = StoreAt(@, idx + 1, v)]
    ELSE [c EXCEPT !.past = StoreAt(@, idx - LNameBufSize + 1, v)]

\* the 13 UTF-16 units of a long-name slot, Name1 then Name2 then Name3
LongUnits(le) ==
  LET b == LDIR_Name1(le) \o LDIR_Name2(le) \o LDIR_Name3(le)
  IN  [j \in 1..13 |-> [lo |-> b[2 * j - 1], hi |-> b[2 * j]]]

\* the first unit at which one of the three copy loops leaves: a nonzero
\* high byte (return) or a low byte of 0x00 / 0xFF (goto end); 14 if none
FirstStopUnit(u) ==
  LET S == {j \in 1..13 : u[j].hi # 0 \/ u[j].lo = 0 \/ u[j].lo = 255}
  IN  IF S = {} THEN 14 ELSE CHOOSE j \in S : \A k \in S : j <= k

\* the loop after the label 'end': entrybuf[i-1], ..., entrybuf[0] are
\* appended until one fails the whitelist
RECURSIVE AppendReversed(_, _, _)
AppendReversed(c, entrybuf, i) ==
  IF i = 0 THEN c
  ELSE IF ~fat32_is_valid_filename_character(entrybuf[i])
    THEN [c EXCEPT !.is_valid = FALSE]
  ELSE AppendReversed([StoreByte(c, c.lname_sz, entrybuf[i])
                         EXCEPT !.lname_sz = @ + 1],
                      entrybuf, i - 1)

\* lines 155-160: a slot with another checksum restarts the accumulator
\* (bzero clears sizeof(ctx->lname_chksum) = 2 bytes of the buffer)
LongEntryRestart(c, le) ==
  IF c.lname_chksum # LDIR_Chksum(le)
    THEN [c EXCEPT !.lname_buf = [j \in 1..Len(@) |-> IF j <= 2 THEN 0 ELSE @[j]],
                   !.lname_sz = 0,
                   !.lname_chksum = LDIR_Chksum(le),
                   !.is_valid = TRUE]
    ELSE c

\* a unit with a nonzero high byte is taken as its low byte
fat_handle_long_dir_entry_KeepsHighByteUnits(c, le) ==
  LET c1 == LongEntryRestart(c, le)
      u == LongUnits(le)
      stop == FirstStopUnit(u)
      entrybuf == [j \in 1..(stop - 1) |-> u[j].lo]
  IN  IF ~c1.is_valid THEN c1
      ELSE AppendReversed(c1, entrybuf, stop - 1)

fat_handle_long_dir_entry(c, le) ==
  LET c1 == LongEntryRestart(c, le)
      u == LongUnits(le)
      stop == FirstStopUnit(u)
      entrybuf == [j \in 1..(stop - 1) |-> u[j].lo]
  IN  IF ~c1.is_valid THEN c1
      ELSE IF stop <= 13 /\ u[stop].hi # 0 THEN [c1 EXCEPT !.is_valid = FALSE]
      ELSE AppendReversed(c1, entrybuf, stop - 1)

-----------------------------------------------------------------------------
(* Volume geometry: fat_get_type.                                          *)

fat_get_FATSz(h) == IF h.BPB_FATSz16 # 0 THEN h.BPB_FATSz16 ELSE h.BPB_FATSz32

fat_get_TotSec(h) == IF h.BPB_TotSec16 # 0 THEN h.BPB_TotSec16 ELSE h.BPB_TotSec32

fat_get_RootDirSectors(h) ==
  ((h.BPB_RootEntCnt * 32) + (h.BPB_BytsPerSec - 1)) \div h.BPB_BytsPerSec

\* (a - b) / d in 32-bit unsigned arithmetic, for a and b below 2^31.  When
\* a < b the difference wraps to 2^32 - (b - a) = A + (2^31 - 1) + 1 with
\* A = 2^31 - (b - a); the quotient is put together from the two halves, and
\* for d = 1, where it is 2^31 or more, it is given as 2^31 - 1.
U32SubDiv(a, b, d) ==
  IF a >= b THEN (a - b) \div d
  ELSE IF d = 1 THEN 2147483647
  ELSE LET A == (2147483647 - (b - a)) + 1
       IN  (A \div d) + (2147483647 \div d) + (((A % d) + (2147483647 % d) + 1) \div d)

\* the limits are taken as inclusive: 4085 clusters are still FAT12 and
\* 65525 clusters still FAT16
fat_get_type_InclusiveLimits(h) ==
  LET CountofClusters ==
        U32SubDiv(fat_get_TotSec(h),
                  h.BPB_RsvdSecCnt + (h.BPB_NumFATs * fat_get_FATSz(h))
                  + fat_get_RootDirSectors(h),
                  h.BPB_SecPerClus)
  IN  IF CountofClusters <= 4085 THEN fat12_type
      ELSE IF CountofClusters <= 65525 THEN fat16_type
      ELSE fat32_type

fat_get_type(h) ==
  LET FATSz == fat_get_FATSz(h)
      TotSec == fat_get_TotSec(h)
      RootDirSectors == fat_get_RootDirSectors(h)
      FatAreaSize == h.BPB_NumFATs * FATSz
      CountofClusters ==
        U32SubDiv(TotSec, h.BPB_RsvdSecCnt + FatAreaSize + RootDirSectors,
                  h.BPB_SecPerClus)
  IN  IF CountofClusters < 4085 THEN fat12_type
      ELSE IF CountofClusters < 65525 THEN fat16_type
      ELSE fat32_type

-----------------------------------------------------------------------------
(* The FAT: fat_read_fat_entry and the sentinels.                          *)

\* fat[c] is what the FAT stores for cluster c; an entry that fat does not
\* list holds 0.  On a FAT12 volume the call is NOT_REACHED(): the actions
\* that read the FAT take that branch.
fat_read_fat_entry(t, clusterN) ==
  LET t1 == IF t = fat_unknown THEN fat_get_type(hdr) ELSE t
      stored == IF clusterN \in DOMAIN fat THEN fat[clusterN] ELSE 0
  IN  IF t1 = fat16_type THEN stored % 65536
      ELSE stored % 268435456

fat_is_end_of_clusterchain(t, val) ==
  IF t = fat16_type THEN val >= 65528 ELSE val >= 268435448

fat_is_bad_cluster(t, val) ==
  IF t = fat16_type THEN val = 65527 ELSE val = 268435447

-----------------------------------------------------------------------------
(* fat_get_short_name, fat_fetch_next_component, fat_search_entry_cb.      *)

RECURSIVE UpToSpace(_)
UpToSpace(s) ==
  IF s = <<>> \/ Head(s) = 32 THEN <<>> ELSE <<Head(s)>> \o UpToSpace(Tail(s))

\* one flag, bit 3, decides the case of the basename and of the extension
fat_get_short_name_OneCaseFlag(e) ==
  LET base == UpToSpace(SubSeq(DIR_Name(e), 1, 8))
      ext == UpToSpace(SubSeq(DIR_Name(e), 9, 11))
      lowb == (DIR_NTRes(e) \div FAT_ENTRY_NTRES_BASE_LOW_CASE) % 2 = 1
      b == [j \in 1..Len(base) |-> IF lowb THEN tolower(base[j]) ELSE base[j]]
      x == [j \in 1..Len(ext) |-> IF lowb THEN tolower(ext[j]) ELSE ext[j]]
  IN  b \o (IF DIR_Name(e)[9] # 32 THEN <<46>> \o x ELSE <<>>) \o <<0>>

\* the NUL-terminated bytes fat_get_short_name writes to destbuf
fat_get_short_name(e) ==
  LET base == UpToSpace(SubSeq(DIR_Name(e), 1, 8))
      ext == UpToSpace(SubSeq(DIR_Name(e), 9, 11))
      lowb == (DIR_NTRes(e) \div FAT_ENTRY_NTRES_BASE_LOW_CASE) % 2 = 1
      lowe == (DIR_NTRes(e) \div FAT_ENTRY_NTRES_EXT_LOW_CASE) % 2 = 1
      b == [j \in 1..Len(base) |-> IF lowb THEN tolower(base[j]) ELSE base[j]]
      x == [j \in 1..Len(ext) |-> IF lowe THEN tolower(ext[j]) ELSE ext[j]]
  IN  b \o (IF DIR_Name(e)[9] # 32 THEN <<46>> \o x ELSE <<>>) \o <<0>>

\* the bytes of the path before the next '/' or the end
RECURSIVE UpToSlash(_)
UpToSlash(p) ==
  IF p = <<>> \/ Head(p) = 47 THEN <<>> ELSE <<Head(p)>> \o UpToSlash(Tail(p))

\* copies the next component into pc, NUL-terminates it and advances the
\* path cursor past it; pcl counts the NUL, so the function returns true
fat_fetch_next_component(sc) ==
  LET comp == UpToSlash(sc.path)
  IN  [sc EXCEPT !.pc = comp \o <<0>>,
                 !.pcl = Len(comp) + 1,
                 !.path = SubSeq(@, Len(comp) + 1, Len(@))]

\* does the delivered entry match the component in pc (lines 527-551)?
\* the 8.3 alias of an entry with a long name is accepted as well
EntryMatches_AlsoAlias(sc, e, long_name) ==
  \/ long_name # NULL /\ strcmp(long_name \o <<0>>, sc.pc) = 0
  \/ stricmp(fat_get_short_name(e), sc.pc) = 0

\* long names are compared with case folding, as short names are
EntryMatches_LongFolded(sc, e, long_name) ==
  IF long_name # NULL
    THEN stricmp(long_name \o <<0>>, sc.pc) = 0
    ELSE stricmp(fat_get_short_name(e), sc.pc) = 0

\* a trailing slash is accepted after any entry, directory or not
OnMatch_SlashAfterAnyEntry(sc, eptr, e) ==
  IF sc.single_comp \/ sc.path = <<>>
    THEN [ret |-> -1, sctx |-> [sc EXCEPT !.result = eptr]]
  ELSE LET rest == Tail(sc.path)
       IN  IF rest = <<>>
             THEN [ret |-> -1, sctx |-> [sc EXCEPT !.path = rest, !.result = eptr]]
           ELSE IF ~directory(e)
             THEN [ret |-> -1, sctx |-> [sc EXCEPT !.path = rest]]
           ELSE [ret |-> -1,
                 sctx |-> [sc EXCEPT !.path = rest,
                                     !.pcl = 0,
                                     !.subdir_cluster = fat_get_first_cluster(e)]]

EntryMatches(sc, e, long_name) ==
  IF long_name # NULL
    THEN strcmp(long_name \o <<0>>, sc.pc) = 0
    ELSE stricmp(fat_get_short_name(e), sc.pc) = 0

\* what the callback does once the entry matched (lines 553-591)
OnMatch(sc, eptr, e) ==
  IF sc.single_comp \/ sc.path = <<>>
    THEN [ret |-> -1, sctx |-> [sc EXCEPT !.result = eptr]]
  ELSE LET rest == Tail(sc.path)   \* ctx->path++ over the '/'
       IN  IF rest = <<>>
             THEN IF directory(e)
                    THEN [ret |-> -1, sctx |-> [sc EXCEPT !.path = rest, !.result = eptr]]
                    ELSE [ret |-> -1, sctx |-> [sc EXCEPT !.path = rest, !.not_dir = TRUE]]
           ELSE IF ~directory(e)
             THEN [ret |-> -1, sctx |-> [sc EXCEPT !.path = rest]]
           ELSE [ret |-> -1,
                 sctx |-> [sc EXCEPT !.path = rest,
                                     !.pcl = 0,
                                     !.subdir_cluster = fat_get_first_cluster(e)]]

fat_search_entry_cb(sc, eptr, e, long_name) ==
  LET sc1 == IF sc.pcl = 0 THEN fat_fetch_next_component(sc) ELSE sc
      sc2 == IF long_name = NULL
               THEN [sc1 EXCEPT !.shortname = fat_get_short_name(e)]
               ELSE sc1
  IN  IF ~EntryMatches(sc1, e, long_name)
        THEN [ret |-> 0, sctx |-> sc2]
        ELSE OnMatch(sc2, eptr, e)

\* the callback of a plain walk: it records the entry (in cblog) and
\* returns what its caller chose, 0 to go on or nonzero to stop
RecordingCb(sc, choice) == [ret |-> choice, sctx |-> sc]

CbChoices == IF cbmode = "record" THEN {0, 1} ELSE {0}

-----------------------------------------------------------------------------
(* fat_walk_directory.                                                     *)

entries_per_cluster == (hdr.BPB_BytsPerSec * hdr.BPB_SecPerClus) \div 32

\* a pointer to a slot is <<region, index>>: the region is a cluster number,
\* or 0 for the flat root area of a FAT16 volume
fat_get_pointer_to_cluster_data(cl) == <<cl, 0>>

\* entry + i and entry[i]
EntryPtr == <<entry[1], entry[2] + wi>>
Deref(ptr) == dirs[ptr[1]][ptr[2] + 1]
CurSlot == Deref(EntryPtr)

\* the entry of fat_walk_directory up to the first slot: the assertions, the
\* reset of the long-name state and the first pass through the loop head
WalkEnter(c, e, cl) ==
  IF \/ ft \notin {fat16_type, fat32_type}
     \/ (ft = fat16_type /\ cl # 0 /\ e # NULL)
     \/ (cl = 0 /\ e = NULL)
    THEN /\ wpc' = "panic"
         /\ ctx' = c
         /\ wret' = "none"
         /\ UNCHANGED <<entry, cluster, wi>>
    ELSE /\ wpc' = "slots"
         /\ wret' = "none"
         /\ ctx' = [c EXCEPT !.lname_buf = Zeros(LNameBufSize),
                               !.lname_sz = 0,
                               !.lname_chksum = -1]
         /\ cluster' = cl
         /\ entry' = IF cl # 0 THEN fat_get_pointer_to_cluster_data(cl) ELSE e
         /\ wi' = 0

InSlots == wpc = "slots" /\ wi < entries_per_cluster

\* a plain walk is started by its caller
WalkCall ==
  /\ cbmode = "record"
  /\ wpc = "idle"
  /\ WalkEnter(ctx, entry, cluster)
  /\ UNCHANGED <<volVars, cbmode, cblog, fatreads, searchVars>>
  /\ UNCHANGED <<readVars, typeVars, nameVars, usedVars>>
  /\ UNCHANGED sysVars

WalkLongSlot ==
  /\ InSlots
  /\ is_long_name_entry(CurSlot)
  /\ ctx' = fat_handle_long_dir_entry(ctx, CurSlot)
  /\ wi' = wi + 1
  /\ UNCHANGED <<volVars, cbmode, wpc, entry, cluster, cblog, fatreads,
                 searchVars>>
  /\ UNCHANGED <<readVars, typeVars, nameVars, usedVars>>
  /\ UNCHANGED wret
  /\ UNCHANGED sysVars

WalkVolumeId ==
  /\ InSlots
  /\ ~is_long_name_entry(CurSlot)
  /\ volume_id(CurSlot)
  /\ wi' = wi + 1
  /\ UNCHANGED <<volVars, cbmode, wpc, entry, cluster, ctx, cblog, fatreads,
                 searchVars>>
  /\ UNCHANGED <<readVars, typeVars, nameVars, usedVars>>
  /\ UNCHANGED wret
  /\ UNCHANGED sysVars

IsRealOrEnd == InSlots /\ ~is_long_name_entry(CurSlot) /\ ~volume_id(CurSlot)

\* a slot whose first name byte is 0x00 is skipped like a free slot
WalkNoMoreEntries_Skips ==
  /\ IsRealOrEnd
  /\ DIR_Name(CurSlot)[1] = FAT_ENTRY_DIRNAME_NO_MORE_ENTRIES
  /\ wi' = wi + 1
  /\ UNCHANGED <<volVars, cbmode, wpc, entry, cluster, ctx, cblog, fatreads, wret,
                 searchVars>>
  /\ UNCHANGED <<readVars, typeVars, nameVars, usedVars>>
  /\ UNCHANGED sysVars

WalkNoMoreEntries ==
  /\ IsRealOrEnd
  /\ DIR_Name(CurSlot)[1] = FAT_ENTRY_DIRNAME_NO_MORE_ENTRIES
  /\ wpc' = "ret"
  /\ wret' = 0
  /\ UNCHANGED <<volVars, cbmode, entry, cluster, wi, ctx, cblog, fatreads,
                 searchVars>>
  /\ UNCHANGED <<readVars, typeVars, nameVars, usedVars>>
  /\ UNCHANGED sysVars

\* lines 281-284: a first name byte of 0xE5 makes the walk return
WalkEmptyDir ==
  /\ IsRealOrEnd
  /\ DIR_Name(CurSlot)[1] = FAT_ENTRY_DIRNAME_EMPTY_DIR
  /\ wpc' = "ret"
  /\ wret' = 0
  /\ UNCHANGED <<volVars, cbmode, entry, cluster, wi, ctx, cblog, fatreads,
                 searchVars>>
  /\ UNCHANGED <<readVars, typeVars, nameVars, usedVars>>
  /\ UNCHANGED sysVars

\* lines 288-297: is a long name handed to the callback?
HasLongName(c, e) ==
  c.lname_sz > 0 /\ c.is_valid /\ c.lname_chksum = shortname_checksum(DIR_Name(e))

\* The outcomes of finalising the long name.  With lname_sz below the size of
\* lname_buf there is one.  Otherwise the NUL and the bytes past the end were
\* written outside the array (undefined behaviour): either the memory that
\* follows holds them ("kept") or it reads back as something else ("lost").
FinalizeOutcomes(c) ==
  IF c.lname_sz < LNameBufSize THEN {"kept"} ELSE {"kept", "lost"}

\* the memory lname_buf .. after NUL-termination and str_reverse
FinalizedMem(c, outcome) ==
  LET n == c.lname_sz
      mem == IF outcome = "kept" THEN c.lname_buf \o c.past
             ELSE c.lname_buf \o Zeros(Len(c.past))
  IN  str_reverse(StoreAt(mem, n + 1, 0), n)

\* history only: the component the search callback compares the entry with,
\* and the path that follows that component
CbComponent(sc) ==
  IF cbmode # "search" THEN <<>>
  ELSE IF sc.pcl = 0 THEN UpToSlash(sc.path) ELSE CStr(sc.pc)

CbRest(sc) ==
  IF cbmode # "search" THEN <<>>
  ELSE IF sc.pcl = 0 THEN fat_fetch_next_component(sc).path ELSE sc.path

Callback(sc, eptr, e, long_name, choice) ==
  IF cbmode = "search" THEN fat_search_entry_cb(sc, eptr, e, long_name)
  ELSE RecordingCb(sc, choice)

\* the long-name state is left as it is after the callback
WalkRealEntry_KeepsLongNameState ==
  /\ IsRealOrEnd
  /\ DIR_Name(CurSlot)[1] # FAT_ENTRY_DIRNAME_NO_MORE_ENTRIES
  /\ DIR_Name(CurSlot)[1] # FAT_ENTRY_DIRNAME_EMPTY_DIR
  /\ \E outcome \in FinalizeOutcomes(ctx), choice \in CbChoices :
       LET e == CurSlot
           has == HasLongName(ctx, e)
           mem == FinalizedMem(ctx, outcome)
           long_name == IF has THEN CStr(mem) ELSE NULL
           r == Callback(sctx, EntryPtr, e, long_name, choice)
       IN  /\ ctx' = [ctx EXCEPT
                        !.lname_buf = IF has THEN SubSeq(mem, 1, LNameBufSize) ELSE @,
                        !.past = IF has THEN SubSeq(mem, LNameBufSize + 1, Len(mem)) ELSE @]
           /\ cblog' = Append(cblog, [entry |-> EntryPtr, long_name |-> long_name,
                                      ret |-> r.ret, comp |-> CbComponent(sctx),
                                      rest |-> CbRest(sctx)])
           /\ sctx' = r.sctx
           /\ IF r.ret # 0
                THEN wpc' = "ret" /\ wi' = wi /\ wret' = 0
                ELSE wpc' = wpc /\ wi' = wi + 1 /\ wret' = wret
  /\ UNCHANGED <<volVars, cbmode, entry, cluster, fatreads,
                 spc, abspath, err, errset, sret, todo, done, walks>>
  /\ UNCHANGED <<readVars, typeVars, nameVars, usedVars>>
  /\ UNCHANGED sysVars

\* the value the callback returns is not looked at: the walk goes on
WalkRealEntry_IgnoresStop ==
  /\ IsRealOrEnd
  /\ DIR_Name(CurSlot)[1] # FAT_ENTRY_DIRNAME_NO_MORE_ENTRIES
  /\ DIR_Name(CurSlot)[1] # FAT_ENTRY_DIRNAME_EMPTY_DIR
  /\ \E outcome \in FinalizeOutcomes(ctx), choice \in CbChoices :
       LET e == CurSlot
           has == HasLongName(ctx, e)
           mem == FinalizedMem(ctx, outcome)
           long_name == IF has THEN CStr(mem) ELSE NULL
           r == Callback(sctx, EntryPtr, e, long_name, choice)
       IN  /\ ctx' = [ctx EXCEPT
                        !.lname_buf = IF has THEN SubSeq(mem, 1, LNameBufSize) ELSE @,
                        !.past = IF has THEN SubSeq(mem, LNameBufSize + 1, Len(mem)) ELSE @,
                        !.lname_sz = 0,
                        !.lname_chksum = -1]
           /\ cblog' = Append(cblog, [entry |-> EntryPtr, long_name |-> long_name,
                                      ret |-> r.ret, comp |-> CbComponent(sctx),
                                      rest |-> CbRest(sctx)])
           /\ sctx' = r.sctx
           /\ wpc' = wpc /\ wi' = wi + 1 /\ wret' = wret
  /\ UNCHANGED <<volVars, cbmode, entry, cluster, fatreads,
                 spc, abspath, err, errset, sret, todo, done, walks>>
  /\ UNCHANGED <<readVars, typeVars, nameVars, usedVars>>
  /\ UNCHANGED sysVars

WalkRealEntry ==
  /\ IsRealOrEnd
  /\ DIR_Name(CurSlot)[1] # FAT_ENTRY_DIRNAME_NO_MORE_ENTRIES
  /\ DIR_Name(CurSlot)[1] # FAT_ENTRY_DIRNAME_EMPTY_DIR
  /\ \E outcome \in FinalizeOutcomes(ctx), choice \in CbChoices :
       LET e == CurSlot
           has == HasLongName(ctx, e)
           mem == FinalizedMem(ctx, outcome)
           long_name == IF has THEN CStr(mem) ELSE NULL
           r == Callback(sctx, EntryPtr, e, long_name, choice)
       IN  /\ ctx' = [ctx EXCEPT
                        !.lname_buf = IF has THEN SubSeq(mem, 1, LNameBufSize) ELSE @,
                        !.past = IF has THEN SubSeq(mem, LNameBufSize + 1, Len(mem)) ELSE @,
                        !.lname_sz = 0,
                        !.lname_chksum = -1]
           /\ cblog' = Append(cblog, [entry |-> EntryPtr, long_name |-> long_name,
                                      ret |-> r.ret, comp |-> CbComponent(sctx),
                                      rest |-> CbRest(sctx)])
           /\ sctx' = r.sctx
           /\ IF r.ret # 0
                THEN wpc' = "ret" /\ wi' = wi /\ wret' = 0
                ELSE wpc' = wpc /\ wi' = wi + 1 /\ wret' = wret
  /\ UNCHANGED <<volVars, cbmode, entry, cluster, fatreads,
                 spc, abspath, err, errset, sret, todo, done, walks>>
  /\ UNCHANGED <<readVars, typeVars, nameVars, usedVars>>
  /\ UNCHANGED sysVars

AtClusterEnd == wpc = "slots" /\ wi = entries_per_cluster

\* the walk goes on with the slots that follow the chunk in the root area
WalkFlatRootDone_NextChunk ==
  /\ AtClusterEnd
  /\ cluster = 0
  /\ IF entry[2] + entries_per_cluster < Len(dirs[entry[1]])
       THEN /\ entry' = <<entry[1], entry[2] + entries_per_cluster>>
            /\ wi' = 0
            /\ UNCHANGED <<wpc, wret>>
       ELSE /\ wpc' = "ret"
            /\ wret' = 0
            /\ UNCHANGED <<entry, wi>>
  /\ UNCHANGED <<volVars, cbmode, cluster, ctx, cblog, fatreads, searchVars>>
  /\ UNCHANGED <<readVars, typeVars, nameVars, usedVars>>
  /\ UNCHANGED sysVars

\* lines 316-317: the flat FAT16 root has no chain to follow
WalkFlatRootDone ==
  /\ AtClusterEnd
  /\ cluster = 0
  /\ wpc' = "ret"
  /\ wret' = 0
  /\ UNCHANGED <<volVars, cbmode, entry, cluster, wi, ctx, cblog, fatreads,
                 searchVars>>
  /\ UNCHANGED <<readVars, typeVars, nameVars, usedVars>>
  /\ UNCHANGED sysVars

WalkEndOfChain ==
  /\ AtClusterEnd
  /\ cluster # 0
  /\ fat_is_end_of_clusterchain(ft, fat_read_fat_entry(ft, cluster))
  /\ fatreads' = Append(fatreads, cluster)
  /\ wpc' = "ret"
  /\ wret' = 0
  /\ UNCHANGED <<volVars, cbmode, entry, cluster, wi, ctx, cblog, searchVars>>
  /\ UNCHANGED <<readVars, typeVars, nameVars, usedVars>>
  /\ UNCHANGED sysVars

\* ASSERT(!fat_is_bad_cluster(ft, val)) fails
WalkBadCluster ==
  /\ AtClusterEnd
  /\ cluster # 0
  /\ fat_is_bad_cluster(ft, fat_read_fat_entry(ft, cluster))
  /\ fatreads' = Append(fatreads, cluster)
  /\ wpc' = "panic"
  /\ UNCHANGED <<volVars, cbmode, entry, cluster, wi, ctx, cblog, searchVars>>
  /\ UNCHANGED <<readVars, typeVars, nameVars, usedVars>>
  /\ UNCHANGED wret
  /\ UNCHANGED sysVars

\* cluster = val, and the loop head again: entry is recomputed only for a
\* nonzero cluster
WalkNextCluster ==
  /\ AtClusterEnd
  /\ cluster # 0
  /\ Len(fatreads) < MaxFatReads
  /\ LET val == fat_read_fat_entry(ft, cluster)
     IN  /\ ~fat_is_end_of_clusterchain(ft, val)
         /\ ~fat_is_bad_cluster(ft, val)
         /\ cluster' = val
         /\ entry' = IF val # 0 THEN fat_get_pointer_to_cluster_data(val) ELSE entry
  /\ fatreads' = Append(fatreads, cluster)
  /\ wi' = 0
  /\ UNCHANGED <<volVars, cbmode, wpc, ctx, cblog, searchVars>>
  /\ UNCHANGED <<readVars, typeVars, nameVars, usedVars>>
  /\ UNCHANGED wret
  /\ UNCHANGED sysVars

-----------------------------------------------------------------------------
(* fat_get_rootdir, fat_init_search_ctx, fat_search_entry.                 *)

\* the pointer and the cluster fat_get_rootdir yields: region 0 (the flat
\* root) and cluster 0 on FAT16, the root cluster on FAT32
fat_get_rootdir(t) ==
  IF t = fat16_type THEN [entry |-> <<0, 0>>, cluster |-> 0]
  ELSE [entry |-> fat_get_pointer_to_cluster_data(hdr.BPB_RootClus),
        cluster |-> hdr.BPB_RootClus]

\* bzero of the whole context, then path and single_comp
fat_init_search_ctx(path, single_comp) ==
  [path |-> path, pc |-> <<>>, pcl |-> 0, shortname |-> <<>>,
   single_comp |-> single_comp, subdir_cluster |-> 0, not_dir |-> FALSE,
   result |-> NULL]

ZeroWalkCtx ==
  [lname_buf |-> Zeros(LNameBufSize), past |-> <<>>, lname_sz |-> 0,
   lname_chksum |-> 0, is_valid |-> FALSE]

\* lines 624-627: the path is "/" alone
SearchRootOnly ==
  /\ cbmode = "search"
  /\ spc = "idle"
  /\ Tail(abspath) = <<>>
  /\ sret' = fat_get_rootdir(ft).entry
  /\ spc' = "done"
  /\ done' = Append(done, [path |-> abspath, ret |-> sret', err |-> err,
                           errset |-> errset])
  /\ UNCHANGED <<volVars, walkVars, abspath, sctx, err, errset, todo, walks>>
  /\ UNCHANGED <<readVars, typeVars, nameVars, usedVars>>
  /\ UNCHANGED sysVars

\* lines 629-631: the first walk, on the root directory
SearchCall ==
  /\ cbmode = "search"
  /\ spc = "idle"
  /\ Tail(abspath) # <<>>
  /\ sctx' = fat_init_search_ctx(Tail(abspath), FALSE)
  /\ LET root == fat_get_rootdir(ft)
     IN  WalkEnter(ZeroWalkCtx, root.entry, root.cluster)
  /\ spc' = "walk"
  /\ walks' = 1
  /\ UNCHANGED <<volVars, cbmode, cblog, fatreads, abspath, err, errset, sret, todo,
                 done>>
  /\ UNCHANGED <<readVars, typeVars, nameVars, usedVars>>
  /\ UNCHANGED sysVars

\* one more walk is started whether or not a sub-directory is pending
SearchDescend_WithoutPendingCluster ==
  /\ spc = "walk"
  /\ wpc = "ret"
  /\ sctx' = [sctx EXCEPT !.subdir_cluster = 0]
  /\ WalkEnter(ctx, NULL, sctx.subdir_cluster)
  /\ walks' = walks + 1
  /\ UNCHANGED <<volVars, cbmode, cblog, fatreads, spc, abspath, err, errset,
                 sret, todo, done>>
  /\ UNCHANGED <<readVars, typeVars, nameVars, usedVars>>
  /\ UNCHANGED sysVars

\* lines 633-640: one more walk, on the pending sub-directory
SearchDescend ==
  /\ spc = "walk"
  /\ wpc = "ret"
  /\ sctx.subdir_cluster # 0
  /\ sctx' = [sctx EXCEPT !.subdir_cluster = 0]
  /\ WalkEnter(ctx, NULL, sctx.subdir_cluster)
  /\ walks' = walks + 1
  /\ UNCHANGED <<volVars, cbmode, cblog, fatreads, spc, abspath, err, errset,
                 sret, todo, done>>
  /\ UNCHANGED <<readVars, typeVars, nameVars, usedVars>>
  /\ UNCHANGED sysVars

\* lines 642-649
SearchReturn ==
  /\ spc = "walk"
  /\ wpc = "ret"
  /\ sctx.subdir_cluster = 0
  /\ err' = IF sctx.not_dir THEN -ENOTDIR
            ELSE IF sctx.result = NULL THEN -ENOENT ELSE 0
  /\ errset' = TRUE
  /\ sret' = sctx.result
  /\ spc' = "done"
  /\ done' = Append(done, [path |-> abspath, ret |-> sret', err |-> err',
                           errset |-> TRUE])
  /\ UNCHANGED <<volVars, walkVars, abspath, sctx, todo, walks>>
  /\ UNCHANGED <<readVars, typeVars, nameVars, usedVars>>
  /\ UNCHANGED sysVars

\* the caller resolves its next path, with the same int for the error
SearchAgain ==
  /\ spc = "done"
  /\ todo # <<>>
  /\ abspath' = Head(todo)
  /\ todo' = Tail(todo)
  /\ spc' = "idle"
  /\ wpc' = "idle"
  /\ errset' = FALSE
  /\ sret' = NULL
  /\ cblog' = <<>>
  /\ fatreads' = <<>>
  /\ wret' = "none"
  /\ walks' = 0
  /\ UNCHANGED <<volVars, cbmode, entry, cluster, wi, ctx, sctx, err, done>>
  /\ UNCHANGED <<readVars, typeVars, nameVars, usedVars>>
  /\ UNCHANGED sysVars

-----------------------------------------------------------------------------
(* Volume images.  A directory is laid out from items: a short entry with  *)
(* or without the run of long-name slots in front of it, a deleted slot, a *)
(* volume label.  Slots are written as the 32 bytes they have on disk.     *)

U16(v) == <<v % 256, (v \div 256) % 256>>
U32(v) == U16(v % 65536) \o U16(v \div 65536)

\* a short (8.3) directory entry
MkShort(name11, attr, ntres, clus, size) ==
  name11 \o <<attr, ntres>> \o Zeros(7) \o U16(clus \div 65536) \o Zeros(4)
  \o U16(clus % 65536) \o U32(size)

\* a long-name slot holding 13 UTF-16 units
MkLong(ord, chksum, units) ==
  LET b == Flatten([j \in 1..13 |-> <<units[j].lo, units[j].hi>>])
  IN  <<ord>> \o SubSeq(b, 1, 10) \o <<15, 0, chksum>> \o SubSeq(b, 11, 22)
      \o <<0, 0>> \o SubSeq(b, 23, 26)

\* the number of slots a long name takes
SlotsFor(nm) == (Len(nm) + 12) \div 13

\* unit j of the run that stores nm: the name, one 0x0000, then 0xFFFF padding
NameUnit(nm, j) ==
  IF j <= Len(nm) THEN [lo |-> nm[j], hi |-> 0]
  ELSE IF j = Len(nm) + 1 THEN [lo |-> 0, hi |-> 0]
  ELSE [lo |-> 255, hi |-> 255]

\* the run of long-name slots for an item, in the order they are stored:
\* descending ordinal, the slot with the highest ordinal flagged 0x40.  The
\* slot stored at position it.at carries the item's defect, if any.
LongRun(it) ==
  LET n == SlotsFor(it.lname)
      chk == shortname_checksum(it.name)
      slot(p) ==
        LET k == n + 1 - p
            bad == it.defect # "none" /\ it.at = p
            u0 == [j \in 1..13 |-> NameUnit(it.lname, 13 * (k - 1) + j)]
            u == IF bad /\ it.defect = "hibyte" THEN [u0 EXCEPT ![1].hi = 1]
                 ELSE IF bad /\ it.defect = "badchar" THEN [u0 EXCEPT ![1].lo = 32]
                 ELSE u0
        IN  MkLong(k + (IF k = n THEN 64 ELSE 0),
                   IF bad /\ it.defect = "chksum" THEN (chk + 1) % 256 ELSE chk,
                   u)
  IN  [p \in 1..n |-> slot(p)]

ItemSlots(it) ==
  IF it.kind = "deleted"
    THEN <<MkShort(<<229>> \o Tail(it.name), it.attr, it.ntres, it.clus, it.size)>>
  ELSE IF it.kind = "end"
    THEN <<Zeros(32)>>
  ELSE IF it.lname = <<>>
    THEN <<MkShort(it.name, it.attr, it.ntres, it.clus, it.size)>>
  ELSE LongRun(it) \o <<MkShort(it.name, it.attr, it.ntres, it.clus, it.size)>>

LayoutSlots(layout) == Flatten([j \in 1..Len(layout) |-> ItemSlots(layout[j])])

Item(kind, lname, name, attr, ntres, clus, size, defect, at) ==
  [kind |-> kind, lname |-> lname, name |-> name, attr |-> attr, ntres |-> ntres,
   clus |-> clus, size |-> size, defect |-> defect, at |-> at]

\* "LongFileNameExample.txt" and its alias "LONGFI~1TXT"
LongFileNameExample ==
  <<76, 111, 110, 103, 70, 105, 108, 101, 78, 97, 109, 101, 69, 120, 97, 109, 112,
    108, 101, 46, 116, 120, 116>>
LONGFI1TXT == <<76, 79, 78, 71, 70, 73, 126, 49, 84, 88, 84>>

\* "ThreeSlotLongNameExample01.dat" and its alias "THREES~1DAT"
ThreeSlotName ==
  <<84, 104, 114, 101, 101, 83, 108, 111, 116, 76, 111, 110, 103, 78, 97, 109, 101,
    69, 120, 97, 109, 112, 108, 101, 48, 49, 46, 100, 97, 116>>
THREES1DAT == <<84, 72, 82, 69, 69, 83, 126, 49, 68, 65, 84>>

\* "HELLO   TXT", "FILL    BIN", "BIGNAM~1TXT"
HELLOTXT == <<72, 69, 76, 76, 79, 32, 32, 32, 84, 88, 84>>
FILLBIN == <<70, 73, 76, 76, 32, 32, 32, 32, 66, 73, 78>>
BIGNAM1TXT == <<66, 73, 71, 78, 65, 77, 126, 49, 84, 88, 84>>
VOLLABEL == <<84, 73, 76, 67, 75, 32, 32, 32, 32, 32, 32>>

\* a long name of n lower-case letters, no two neighbours alike
BigName(n) == [j \in 1..n |-> 97 + (j % 26)]

PlainFile(name) == Item("short", <<>>, name, 32, 0, 0, 0, "none", 0)
LongFile(lname, name, defect, at) == Item("short", lname, name, 32, 0, 0, 0, defect, at)

\* the items the layouts of a plain walk are made of
WalkItems ==
  {PlainFile(HELLOTXT),
   Item("deleted", <<>>, HELLOTXT, 32, 0, 0, 0, "none", 0),
   Item("short", <<>>, VOLLABEL, 8, 0, 0, 0, "none", 0),
   Item("end", <<>>, Zeros(11), 0, 0, 0, 0, "none", 0),
   LongFile(LongFileNameExample, LONGFI1TXT, "none", 0)}
  \cup {LongFile(ThreeSlotName, THREES1DAT, "chksum", p) : p \in 1..3}
  \cup {LongFile(ThreeSlotName, THREES1DAT, "hibyte", 1),
        LongFile(ThreeSlotName, THREES1DAT, "badchar", 2)}

\* runs of 19 and 20 slots: 247, 255 and 260 characters
BigItems ==
  {LongFile(BigName(n), BIGNAM1TXT, "none", 0) : n \in {247, 255, 260}}

WalkLayouts ==
  {lead \o l : lead \in {<<>>, <<PlainFile(HELLOTXT)>>},
               l \in UNION {[1..k -> WalkItems] : k \in 1..MaxItems}}
  \cup {<<b>> : b \in BigItems}


Range(f) == {f[x] : x \in DOMAIN f}

ZeroSlot == Zeros(32)

\* BPB of a FAT32 volume of 66000 clusters, the root directory at cluster 2
Hdr32 ==
  [BPB_BytsPerSec |-> 512, BPB_SecPerClus |-> 1, BPB_RsvdSecCnt |-> 32,
   BPB_NumFATs |-> 2, BPB_RootEntCnt |-> 0, BPB_TotSec16 |-> 0, BPB_FATSz16 |-> 0,
   BPB_TotSec32 |-> 67064, BPB_FATSz32 |-> 516, BPB_RootClus |-> 2]

\* BPB of a FAT16 volume of 5000 clusters with a flat root of 32 entries
Hdr16 ==
  [BPB_BytsPerSec |-> 512, BPB_SecPerClus |-> 1, BPB_RsvdSecCnt |-> 1,
   BPB_NumFATs |-> 2, BPB_RootEntCnt |-> 32, BPB_TotSec16 |-> 5043, BPB_FATSz16 |-> 20,
   BPB_TotSec32 |-> 0, BPB_FATSz32 |-> 0, BPB_RootClus |-> 0]

EpcOf(h) == (h.BPB_BytsPerSec * h.BPB_SecPerClus) \div 32

\* the end-of-chain and bad-cluster marks as they are stored
EocMark(t) == IF t = fat16_type THEN 65535 ELSE 268435455
BadMark(t) == IF t = fat16_type THEN 65527 ELSE 268435447

\* slots padded to whole clusters: zeroed slots (the rest of the cluster was
\* never used) or further live entries (the directory fills its clusters)
PadSlots(slots, fill, epc) ==
  LET r == Len(slots) % epc
      need == IF r = 0 /\ slots # <<>> THEN 0 ELSE epc - r
  IN  slots \o [j \in 1..need |->
                  IF fill = "full" THEN MkShort(FILLBIN, 32, 0, 0, 0) ELSE ZeroSlot]

\* a directory stored on a cluster chain: d.chain lists its clusters, d.slots
\* its slots, d.last is the FAT value of its last cluster
DirClusters(dl) == UNION {Range(d.chain) : d \in Range(dl)}

DirsOf(dl, epc) ==
  [c \in DirClusters(dl) |->
     LET d == CHOOSE d \in Range(dl) : c \in Range(d.chain)
         k == CHOOSE k \in 1..Len(d.chain) : d.chain[k] = c
     IN  SubSeq(d.slots, (k - 1) * epc + 1, k * epc)]

\* the FAT: entries 0 and 1 are reserved, a cluster no directory uses is free
FatOf(dl, t) ==
  [c \in 0..9 |->
     IF c \in DirClusters(dl)
       THEN LET d == CHOOSE d \in Range(dl) : c \in Range(d.chain)
                k == CHOOSE k \in 1..Len(d.chain) : d.chain[k] = c
            IN  IF k < Len(d.chain) THEN d.chain[k + 1] ELSE d.last
     ELSE IF c < 2 THEN EocMark(t)
     ELSE 0]

\* the clusters a walked directory is stored on, in chain order
ChainOrder == <<2, 5, 7, 3>>

\* more further clusters, each full of live entries
MoreSlots(slots, more, epc) ==
  slots \o [j \in 1..(more * epc) |-> MkShort(FILLBIN, 32, 0, 0, 0)]

OnChain(slots, fill, more, last, h) ==
  LET padded == MoreSlots(PadSlots(slots, fill, EpcOf(h)), more, EpcOf(h))
  IN  [chain |-> SubSeq(ChainOrder, 1, Len(padded) \div EpcOf(h)),
       slots |-> padded, last |-> last]

\* fat_get_type, fat_get_short_name and fat_get_used_bytes are not in use
OthersOff ==
  /\ tpc = "off"
  /\ npc = "off"
  /\ nentry = <<>>
  /\ destbuf = <<>>
  /\ upc = "off"
  /\ uclusterN = 0
  /\ used = 0

\* the reader is not in use
ReaderOff ==
  /\ data = <<>>
  /\ rpc = "off"
  /\ rentry = ZeroSlot
  /\ dest = <<>>
  /\ written = 0
  /\ rcluster = 0
  /\ copies = <<>>

\* the directories a plain walk is run on
WalkScenarios ==
  {[layout |-> l, shape |-> "chain32", fill |-> "zero", more |-> 0, last |-> "eoc"] :
     l \in WalkLayouts}
  \cup {[layout |-> <<i>>, shape |-> s, fill |-> f, more |-> 0, last |-> e] :
          i \in WalkItems, s \in {"chain32", "flat16"}, f \in {"zero", "full"},
          e \in {"eoc", "bad"}}
  \* directories of several clusters, of a FAT32 and of a FAT16 volume
  \cup {[layout |-> <<i>>, shape |-> s, fill |-> "full", more |-> m, last |-> e] :
          i \in WalkItems, s \in {"chain32", "chain16"},
          m \in 1..(MaxDirClusters - 1), e \in {"eoc", "bad"}}
  \* a flat root with no unused slot
  \cup {[layout |-> <<i>>, shape |-> "flat16", fill |-> "full",
         more |-> (Hdr16.BPB_RootEntCnt \div EpcOf(Hdr16)) - 1, last |-> "eoc"] :
          i \in WalkItems}

\* what the FAT holds for the last cluster of the directory: an end-of-chain
\* mark, a bad-cluster mark, 0 (a free cluster) or the directory's first
\* cluster again (a chain that is a cycle)
LastValue(last, t) ==
  IF last = "bad" THEN BadMark(t)
  ELSE IF last = "free" THEN 0
  ELSE IF last = "cycle" THEN ChainOrder[1]
  ELSE EocMark(t)

\* the volume of a scenario, and the arguments of the walk
WalkVolume(sc) ==
  LET t == IF sc.shape = "chain32" THEN fat32_type ELSE fat16_type
      h == IF sc.shape = "chain32" THEN Hdr32 ELSE Hdr16
      d == OnChain(LayoutSlots(sc.layout), sc.fill, sc.more, LastValue(sc.last, t), h)
  IN  /\ hdr = h
      /\ ft = t
      /\ dirs = IF sc.shape = "flat16"
                  THEN [c \in {0} |->
                          d.slots \o [j \in 1..(h.BPB_RootEntCnt - Len(d.slots))
                                        |-> ZeroSlot]]
                  ELSE DirsOf(<<d>>, EpcOf(h))
      /\ fat = IF sc.shape = "flat16" THEN FatOf(<<>>, t) ELSE FatOf(<<d>>, t)
      /\ entry = IF sc.shape = "flat16" THEN <<0, 0>> ELSE NULL
      /\ cluster = IF sc.shape = "flat16" THEN 0 ELSE ChainOrder[1]

InitWalk ==
  /\ \E sc \in WalkScenarios : WalkVolume(sc)
  /\ cbmode = "record"
  /\ wpc = "idle"
  /\ wi = 0
  \* the walk context is the caller's scratch: is_valid starts as anything
  /\ \E iv \in BOOLEAN : ctx = [ZeroWalkCtx EXCEPT !.is_valid = iv]
  /\ cblog = <<>>
  /\ fatreads = <<>>
  /\ spc = "idle"
  /\ abspath = <<>>
  /\ sctx = fat_init_search_ctx(<<>>, FALSE)
  /\ err = 0
  /\ errset = FALSE
  /\ sret = NULL
  /\ todo = <<>>
  /\ done = <<>>
  /\ walks = 0
  /\ ReaderOff
  /\ OthersOff
  /\ wret = "none"
  /\ SysOff

-----------------------------------------------------------------------------
(* The volume the resolver is run on:                                      *)
(*   /                 volume label, LongFileNameExample.txt (alias        *)
(*                     LONGFI~1.TXT), HELLO.TXT, directory A               *)
(*   /A                ".", "..", fourteen files FILL.BIN, directory B     *)
(*                     (two clusters, 3 -> 6)                              *)
(*   /A/B              ".", "..", C.BIN                                    *)

DOT == <<46, 32, 32, 32, 32, 32, 32, 32, 32, 32, 32>>
DOTDOT == <<46, 46, 32, 32, 32, 32, 32, 32, 32, 32, 32>>
DIRA == <<65, 32, 32, 32, 32, 32, 32, 32, 32, 32, 32>>
DIRB == <<66, 32, 32, 32, 32, 32, 32, 32, 32, 32, 32>>
CBIN == <<67, 32, 32, 32, 32, 32, 32, 32, 66, 73, 78>>

SubDir(name, clus) == Item("short", <<>>, name, 16, 0, clus, 0, "none", 0)

RootLayout(t) ==
  <<Item("short", <<>>, VOLLABEL, 8, 0, 0, 0, "none", 0),
    Item("short", LongFileNameExample, LONGFI1TXT, 32, 0, 8, 5, "none", 0),
    Item("short", <<>>, HELLOTXT, 32, 0, 8, 5, "none", 0),
    SubDir(DIRA, 3)>>

ALayout(t) ==
  <<SubDir(DOT, 3), SubDir(DOTDOT, IF t = fat16_type THEN 0 ELSE 2)>>
  \o [j \in 1..14 |-> PlainFile(FILLBIN)]
  \o <<SubDir(DIRB, 4)>>

BLayout ==
  <<SubDir(DOT, 4), SubDir(DOTDOT, 3),
    Item("short", <<>>, CBIN, 32, 0, 9, 4, "none", 0)>>

SearchTree(t, h) ==
  LET dir(layout, chain) ==
        [chain |-> chain, slots |-> PadSlots(LayoutSlots(layout), "zero", EpcOf(h)),
         last |-> EocMark(t)]
      file(c) == [chain |-> <<c>>, slots |-> <<>>, last |-> EocMark(t)]
      root == dir(RootLayout(t), <<2>>)
      sub == <<dir(ALayout(t), <<3, 6>>), dir(BLayout, <<4>>)>>
  IN  [root |-> root, sub |-> sub, files |-> <<file(8), file(9)>>]

\* the path components tried: "a", "b", "c.bin", "hello.txt",
\* "LongFileNameExample.txt", "longfilenameexample.txt", "LONGFI~1.TXT", "nope"
Components ==
  {<<97>>, <<98>>, <<99, 46, 98, 105, 110>>,
   <<104, 101, 108, 108, 111, 46, 116, 120, 116>>,
   LongFileNameExample,
   <<108, 111, 110, 103, 102, 105, 108, 101, 110, 97, 109, 101, 101, 120, 97, 109,
     112, 108, 101, 46, 116, 120, 116>>,
   <<76, 79, 78, 71, 70, 73, 126, 49, 46, 84, 88, 84>>,
   <<110, 111, 112, 101>>}

\* "/c1/c2/.../cn"
JoinPath(comps) == Flatten([j \in 1..Len(comps) |-> <<47>> \o comps[j]])

\* the components tried before the last one: the names that exist, "a", "b",
\* "hello.txt" and "LongFileNameExample.txt"
NonFinalComponents ==
  {<<97>>, <<98>>, <<104, 101, 108, 108, 111, 46, 116, 120, 116>>, LongFileNameExample}

\* the paths of one to MaxDepth components, without a trailing '/'
Paths ==
  {JoinPath(pre \o <<c>>) :
     pre \in UNION {[1..k -> NonFinalComponents] : k \in 0..(MaxDepth - 1)},
     c \in Components}

\* paths through "." and "..", and one with an empty component:
\* "/a/./b/../b/c.bin", "/a/../hello.txt", "/a//b"
DotPaths ==
  {JoinPath(<<<<97>>, <<46>>, <<98>>, <<46, 46>>, <<98>>, <<99, 46, 98, 105, 110>>>>),
   JoinPath(<<<<97>>, <<46, 46>>, <<104, 101, 108, 108, 111, 46, 116, 120, 116>>>>),
   JoinPath(<<<<97>>, <<>>, <<98>>>>)}

InitSearch ==
  /\ \E t \in {fat16_type, fat32_type} :
       LET h == IF t = fat16_type THEN Hdr16 ELSE Hdr32
           tree == SearchTree(t, h)
           onfat == IF t = fat16_type THEN tree.sub ELSE <<tree.root>> \o tree.sub
           sub == DirsOf(onfat, EpcOf(h))
       IN  /\ hdr = h
           /\ ft = t
           /\ dirs = IF t = fat16_type
                       THEN [c \in {0} \cup DOMAIN sub |->
                               IF c = 0
                                 THEN tree.root.slots
                                      \o [j \in 1..(h.BPB_RootEntCnt - Len(tree.root.slots))
                                            |-> ZeroSlot]
                                 ELSE sub[c]]
                       ELSE sub
           /\ fat = FatOf(onfat \o tree.files, t)
  /\ cbmode = "search"
  /\ wpc = "idle"
  /\ entry = NULL
  /\ cluster = 0
  /\ wi = 0
  /\ ctx = ZeroWalkCtx
  /\ cblog = <<>>
  /\ fatreads = <<>>
  /\ spc = "idle"
  \* the caller resolves "/" alone, or a path and then the same path with a
  \* trailing '/'
  /\ \/ abspath = <<47>> /\ todo = <<>>
     \/ \E p \in Paths \cup DotPaths : abspath = p /\ todo = <<p \o <<47>>>>
  /\ sctx = fat_init_search_ctx(<<>>, FALSE)
  \* the caller's int is not initialised
  /\ err \in {0, -1}
  /\ errset = FALSE
  /\ sret = NULL
  /\ done = <<>>
  /\ walks = 0
  /\ ReaderOff
  /\ OthersOff
  /\ wret = "none"
  /\ SysOff

-----------------------------------------------------------------------------
(* fat_read_whole_file.                                                   *)

\* cluster size in bytes
ClusterSize(h) == h.BPB_SecPerClus * h.BPB_BytsPerSec

\* memmove(dest_buf + at, src, n)
memmove(buf, at, src, n) ==
  [i \in 1..Len(buf) |-> IF at < i /\ i <= at + n THEN src[i - at] ELSE buf[i]]

\* the loop goes on when the rest is exactly one cluster
ReadsWhatIsNeeded_Strict(rem, cs) == rem < cs

\* the test that ends the loop with the last, partial or whole, cluster
ReadsWhatIsNeeded(rem, cs) == rem <= cs

ReadCall ==
  /\ rpc = "idle"
  /\ DIR_FileSize(rentry) <= Len(dest)
  /\ rpc' = "loop"
  /\ written' = 0
  /\ ft' = fat_get_type(hdr)
  /\ rcluster' = fat_get_first_cluster(rentry)
  /\ UNCHANGED <<hdr, dirs, fat, data, rentry, dest, copies>>
  /\ UNCHANGED <<walkVars, searchVars>>
  /\ UNCHANGED <<typeVars, nameVars, usedVars>>
  /\ UNCHANGED sysVars

\* ASSERT(entry->DIR_FileSize <= dest_buf_size) fails
ReadAssertSize ==
  /\ rpc = "idle"
  /\ ~(DIR_FileSize(rentry) <= Len(dest))
  /\ rpc' = "panic"
  /\ UNCHANGED <<volVars, data, rentry, dest, written, rcluster, copies>>
  /\ UNCHANGED <<walkVars, searchVars>>
  /\ UNCHANGED <<typeVars, nameVars, usedVars>>
  /\ UNCHANGED sysVars

ReadRemaining ==
  /\ rpc = "loop"
  /\ LET rem == DIR_FileSize(rentry) - written
     IN  /\ ReadsWhatIsNeeded(rem, ClusterSize(hdr))
         /\ dest' = memmove(dest, written, data[rcluster], rem)
         /\ copies' = Append(copies, [cluster |-> rcluster, at |-> written, len |-> rem])
  /\ rpc' = "ret"
  /\ UNCHANGED <<volVars, data, rentry, written, rcluster>>
  /\ UNCHANGED <<cbmode, wpc, entry, cluster, wi, ctx, cblog, fatreads, wret, searchVars>>
  /\ UNCHANGED <<typeVars, nameVars, usedVars>>
  /\ UNCHANGED sysVars

\* 'written' is not advanced: the loop is ended by the chain alone
ReadWholeCluster_WrittenNotAdvanced ==
  /\ rpc = "loop"
  /\ ~ReadsWhatIsNeeded(DIR_FileSize(rentry) - written, ClusterSize(hdr))
  /\ dest' = memmove(dest, written, data[rcluster], ClusterSize(hdr))
  /\ copies' = Append(copies, [cluster |-> rcluster, at |-> written,
                               len |-> ClusterSize(hdr)])
  /\ written' = written
  /\ fatreads' = Append(fatreads, rcluster)
  /\ UNCHANGED <<volVars, data, rentry>>
  /\ UNCHANGED <<cbmode, wpc, entry, cluster, wi, ctx, cblog, wret, searchVars>>
  /\ UNCHANGED <<typeVars, nameVars, usedVars>>
  /\ UNCHANGED sysVars

\* the whole cluster is copied and the FAT entry of the cluster is read
ReadWholeCluster ==
  /\ rpc = "loop"
  /\ ~ReadsWhatIsNeeded(DIR_FileSize(rentry) - written, ClusterSize(hdr))
  /\ dest' = memmove(dest, written, data[rcluster], ClusterSize(hdr))
  /\ copies' = Append(copies, [cluster |-> rcluster, at |-> written,
                               len |-> ClusterSize(hdr)])
  /\ written' = written + ClusterSize(hdr)
  /\ fatreads' = Append(fatreads, rcluster)
  /\ UNCHANGED <<volVars, data, rentry>>
  /\ UNCHANGED <<cbmode, wpc, entry, cluster, wi, ctx, cblog, wret, searchVars>>
  /\ UNCHANGED <<typeVars, nameVars, usedVars>>
  /\ UNCHANGED sysVars

\* what the loop does after a whole cluster when the FAT names the next one
AfterWholeCluster ==
  IF ~(DIR_FileSize(rentry) - written' > 0) THEN "panic"
  ELSE IF written' < DIR_FileSize(rentry) THEN "loop"
  ELSE "ret"

\* fat_read_fat_entry on a FAT12 volume: NOT_REACHED
ReadFat12 ==
  /\ ReadWholeCluster
  /\ ft = fat12_type
  /\ rpc' = "panic"
  /\ UNCHANGED rcluster
  /\ UNCHANGED sysVars

\* an end mark met while bytes remain is taken as the end of the file
ReadEndOfChain_ReturnsShort ==
  /\ ReadWholeCluster
  /\ ft # fat12_type
  /\ fat_is_end_of_clusterchain(ft, fat_read_fat_entry(ft, rcluster))
  /\ rpc' = "ret"
  /\ UNCHANGED rcluster
  /\ UNCHANGED sysVars

\* the chain ends while bytes remain: NOT_REACHED
ReadEndOfChain ==
  /\ ReadWholeCluster
  /\ ft # fat12_type
  /\ fat_is_end_of_clusterchain(ft, fat_read_fat_entry(ft, rcluster))
  /\ rpc' = "panic"
  /\ UNCHANGED rcluster
  /\ UNCHANGED sysVars

\* ASSERT(!fat_is_bad_cluster(ft, fatval)) fails
ReadBadCluster ==
  /\ ReadWholeCluster
  /\ ft # fat12_type
  /\ ~fat_is_end_of_clusterchain(ft, fat_read_fat_entry(ft, rcluster))
  /\ fat_is_bad_cluster(ft, fat_read_fat_entry(ft, rcluster))
  /\ rpc' = "panic"
  /\ UNCHANGED rcluster
  /\ UNCHANGED sysVars

ReadNextCluster ==
  /\ ReadWholeCluster
  /\ ft # fat12_type
  /\ ~fat_is_end_of_clusterchain(ft, fat_read_fat_entry(ft, rcluster))
  /\ ~fat_is_bad_cluster(ft, fat_read_fat_entry(ft, rcluster))
  /\ rcluster' = fat_read_fat_entry(ft, rcluster)
  /\ rpc' = AfterWholeCluster
  /\ UNCHANGED sysVars

-----------------------------------------------------------------------------
(* The files fat_read_whole_file is run on.                                *)

\* BPB of a FAT12 volume of 2000 clusters
Hdr12 ==
  [BPB_BytsPerSec |-> 512, BPB_SecPerClus |-> 1, BPB_RsvdSecCnt |-> 1,
   BPB_NumFATs |-> 2, BPB_RootEntCnt |-> 224, BPB_TotSec16 |-> 2033, BPB_FATSz16 |-> 9,
   BPB_TotSec32 |-> 0, BPB_FATSz32 |-> 0, BPB_RootClus |-> 0]

\* the clusters a file is stored on, in chain order
FileChainOrder == <<4, 7, 5, 9, 2, 8, 3, 6>>

\* the sizes of the files: around every multiple of the cluster size
FileSizes(cs) ==
  {k * cs + d : k \in 0..MaxFileClusters, d \in {-1, 0, 1, 5}}
  \cap 0..(MaxFileClusters * cs)

\* the bytes of the data clusters; for the cluster numbers 0 and 1, which
\* name no cluster, the bytes found where fat_get_pointer_to_cluster_data
\* points for them
DataOf(cs) == [c \in 0..9 |-> [j \in 1..cs |-> (37 * c + j) % 251]]

\* what the caller's buffer holds before the call
DestFill(i) == (7 * i + 170) % 256

\* the FAT of a volume with one file on the first n clusters of the chain
\* order; the entry of the last one is an end mark, a bad mark, 0 (free), or
\* the number of the first cluster again
FileFat(n, tail, t) ==
  [c \in 0..9 |->
     IF \E k \in 1..n : FileChainOrder[k] = c
       THEN LET k == CHOOSE k \in 1..n : FileChainOrder[k] = c
            IN  IF k < n THEN FileChainOrder[k + 1]
                ELSE IF tail = "eoc" THEN EocMark(t)
                ELSE IF tail = "bad" THEN BadMark(t)
                ELSE IF tail = "free" THEN 0
                ELSE FileChainOrder[1]
     ELSE IF c < 2 THEN EocMark(t)
     ELSE 0]

InitRead ==
  /\ \E h \in {Hdr12, Hdr16, Hdr32} :
       /\ hdr = h
       /\ data = DataOf(ClusterSize(h))
       /\ \E n \in 1..(MaxFileClusters + 1), tail \in {"eoc", "bad", "free", "cycle"} :
            fat = FileFat(n, tail, fat_get_type(h))
       /\ \E S \in FileSizes(ClusterSize(h)), slack \in {-1, 0, 2},
             first \in {0, FileChainOrder[1]} :
            /\ S + slack >= 0
            /\ first = 0 => S = 0
            /\ rentry = MkShort(FILLBIN, 32, 0, first, S)
            /\ dest = [i \in 1..(S + slack) |-> DestFill(i)]
  /\ ft = fat_unknown
  /\ dirs = <<>>
  /\ rpc = "idle"
  /\ written = 0
  /\ rcluster = 0
  /\ copies = <<>>
  /\ cbmode = "none"
  /\ wpc = "off"
  /\ entry = NULL
  /\ cluster = 0
  /\ wi = 0
  /\ ctx = ZeroWalkCtx
  /\ cblog = <<>>
  /\ fatreads = <<>>
  /\ wret = "none"
  /\ spc = "off"
  /\ abspath = <<>>
  /\ sctx = fat_init_search_ctx(<<>>, FALSE)
  /\ err = 0
  /\ errset = FALSE
  /\ sret = NULL
  /\ todo = <<>>
  /\ done = <<>>
  /\ walks = 0
  /\ OthersOff
  /\ SysOff

\* the walker and the resolver are not in use
WalkerOff ==
  /\ cbmode = "none"
  /\ wpc = "off"
  /\ entry = NULL
  /\ cluster = 0
  /\ wi = 0
  /\ ctx = ZeroWalkCtx
  /\ cblog = <<>>
  /\ fatreads = <<>>
  /\ wret = "none"
  /\ spc = "off"
  /\ abspath = <<>>
  /\ sctx = fat_init_search_ctx(<<>>, FALSE)
  /\ err = 0
  /\ errset = FALSE
  /\ sret = NULL
  /\ todo = <<>>
  /\ done = <<>>
  /\ walks = 0

-----------------------------------------------------------------------------
(* A call of fat_get_type, and the BPBs it is called on.                   *)

TypeCall ==
  /\ tpc = "idle"
  /\ ft' = fat_get_type(hdr)
  /\ tpc' = "ret"
  /\ UNCHANGED <<hdr, dirs, fat, walkVars, searchVars, readVars, nameVars, usedVars>>
  /\ UNCHANGED sysVars

\* the cluster counts tried: around the two limits, none, few and many
GeomClusters == {0, 1, 4084, 4085, 4086, 65524, 65525, 65526, 200000}

GeomSecPerClus == {1, 8, 64}

GeomBytsPerSec == {512, 4096}

\* a BPB in the FAT12/16 style (a flat root of 512 entries, 16-bit FAT size)
\* or in the FAT32 style, with tot sectors in all; the 16-bit total is used
\* when the number fits, unless wide asks for the 32-bit one
Geom(style, bps, secPerClus, tot, wide) ==
  [BPB_BytsPerSec |-> bps, BPB_SecPerClus |-> secPerClus,
   BPB_RsvdSecCnt |-> IF style = "flatroot" THEN 1 ELSE 32,
   BPB_NumFATs |-> 2,
   BPB_RootEntCnt |-> IF style = "flatroot" THEN 512 ELSE 0,
   BPB_TotSec16 |-> IF tot < 65536 /\ ~wide THEN tot ELSE 0,
   BPB_FATSz16 |-> IF style = "flatroot" THEN 256 ELSE 0,
   BPB_TotSec32 |-> IF tot < 65536 /\ ~wide THEN 0 ELSE tot,
   BPB_FATSz32 |-> IF style = "flatroot" THEN 0 ELSE 8192,
   BPB_RootClus |-> IF style = "flatroot" THEN 0 ELSE 2]

\* the sectors in front of the data region of such a BPB
GeomMeta(style, bps) ==
  IF style = "flatroot" THEN 1 + (2 * 256) + ((512 * 32) \div bps)
  ELSE 32 + (2 * 8192)

\* the BPBs: n clusters, with or without c - 1 sectors left over, or a total that is less
\* than the sectors in front of the data region by short sectors
Geometries ==
  {Geom(style, bps, c, GeomMeta(style, bps) + (n * c) + (r * (c - 1)), wide) :
     style \in {"flatroot", "chainroot"}, bps \in GeomBytsPerSec,
     c \in GeomSecPerClus, n \in GeomClusters, r \in {0, 1},
     wide \in BOOLEAN}
  \cup {Geom(style, bps, c, GeomMeta(style, bps) - short, wide) :
          style \in {"flatroot", "chainroot"}, bps \in GeomBytsPerSec,
          c \in GeomSecPerClus, short \in {1, 500}, wide \in BOOLEAN}

InitType ==
  /\ hdr \in Geometries
  /\ ft = fat_unknown
  /\ dirs = <<>>
  /\ fat = <<>>
  /\ tpc = "idle"
  /\ WalkerOff
  /\ ReaderOff
  /\ npc = "off"
  /\ nentry = <<>>
  /\ destbuf = <<>>
  /\ upc = "off"
  /\ uclusterN = 0
  /\ used = 0
  /\ SysOff

NextType == TypeCall

SpecType == InitType /\ [][NextType]_vars

-----------------------------------------------------------------------------
(* A call of fat_get_short_name, and the entries it is called on.          *)

\* the bytes fat_get_short_name stores go to the start of the caller's buffer
NameCall ==
  /\ npc = "idle"
  /\ LET out == fat_get_short_name(nentry)
     IN  destbuf' = out \o SubSeq(destbuf, Len(out) + 1, Len(destbuf))
  /\ npc' = "ret"
  /\ UNCHANGED <<volVars, walkVars, searchVars, readVars, typeVars, usedVars>>
  /\ UNCHANGED nentry
  /\ UNCHANGED sysVars

SpacePad(s, n) == s \o [j \in 1..(n - Len(s)) |-> 32]

\* basenames: none, "HELLO", "ReadMe", "A", "ABCDEFGH", "A B", ".", "F1~2"
NameBases ==
  {SpacePad(s, 8) :
     s \in {<<>>, <<72, 69, 76, 76, 79>>, <<82, 101, 97, 100, 77, 101>>, <<65>>,
            <<65, 66, 67, 68, 69, 70, 71, 72>>, <<65, 32, 66>>, <<46>>,
            <<70, 49, 126, 50>>}}

\* extensions: none, "TXT", "c", "Ab", "A C", " XT"
NameExts ==
  {SpacePad(s, 3) :
     s \in {<<>>, <<84, 88, 84>>, <<99>>, <<65, 98>>, <<65, 32, 67>>, <<32, 88, 84>>}}

\* DIR_NTRes: no bit, bit 3, bit 4, both, every bit, every bit but those two
NameNTRes == {0, 8, 16, 24, 255, 231}

\* the caller's buffer before the call
NameBuf == [j \in 1..16 |-> DestFill(j)]

InitName ==
  /\ \E b \in NameBases, x \in NameExts, n \in NameNTRes :
       nentry = MkShort(b \o x, 32, n, 0, 0)
  /\ npc = "idle"
  /\ destbuf = NameBuf
  /\ hdr = Hdr32
  /\ ft = fat32_type
  /\ dirs = <<>>
  /\ fat = <<>>
  /\ WalkerOff
  /\ ReaderOff
  /\ tpc = "off"
  /\ upc = "off"
  /\ uclusterN = 0
  /\ used = 0
  /\ SysOff

NextName == NameCall

SpecName == InitName /\ [][NextName]_vars

-----------------------------------------------------------------------------
(* fat_get_first_data_sector, fat_get_sector_for_cluster and               *)
(* fat_get_used_bytes, and the volumes the latter is called on.            *)

fat_get_first_data_sector(h) ==
  h.BPB_RsvdSecCnt + (h.BPB_NumFATs * fat_get_FATSz(h)) + fat_get_RootDirSectors(h)

\* for N < 2 the term (N - 2) * BPB_SecPerClus wraps and the sum wraps back:
\* the result is the plain sum as long as that is not negative
fat_get_sector_for_cluster(h, N) ==
  ((N - 2) * h.BPB_SecPerClus) + fat_get_first_data_sector(h)

cluster_count == fat_get_TotSec(hdr) \div hdr.BPB_SecPerClus

\* the call, up to the first test of the loop
UsedCall ==
  /\ upc = "idle"
  /\ upc' = "loop"
  /\ uclusterN' = 0
  /\ UNCHANGED <<volVars, walkVars, searchVars, readVars, typeVars, nameVars, used>>
  /\ UNCHANGED sysVars

InUsedLoop == upc = "loop" /\ uclusterN < cluster_count

\* fat_read_fat_entry finds the type of the volume itself: NOT_REACHED on FAT12
UsedFat12 ==
  /\ InUsedLoop
  /\ fat_get_type(hdr) = fat12_type
  /\ fatreads' = Append(fatreads, uclusterN)
  /\ upc' = "panic"
  /\ UNCHANGED <<volVars, cbmode, wpc, entry, cluster, wi, ctx, cblog, wret>>
  /\ UNCHANGED <<searchVars, readVars, typeVars, nameVars, uclusterN, used>>
  /\ UNCHANGED sysVars

\* the entry read is not 0: the loop goes on with the next cluster number
UsedNextCluster ==
  /\ InUsedLoop
  /\ fat_get_type(hdr) # fat12_type
  /\ fat_read_fat_entry(fat_unknown, uclusterN) # 0
  /\ fatreads' = Append(fatreads, uclusterN)
  /\ uclusterN' = uclusterN + 1
  /\ UNCHANGED <<volVars, cbmode, wpc, entry, cluster, wi, ctx, cblog, wret>>
  /\ UNCHANGED <<searchVars, readVars, typeVars, nameVars, upc, used>>
  /\ UNCHANGED sysVars

\* the entry read is 0: break, and the result is computed from clusterN
UsedFreeFound ==
  /\ InUsedLoop
  /\ fat_get_type(hdr) # fat12_type
  /\ fat_read_fat_entry(fat_unknown, uclusterN) = 0
  /\ fatreads' = Append(fatreads, uclusterN)
  /\ used' = fat_get_sector_for_cluster(hdr, uclusterN) * hdr.BPB_BytsPerSec
  /\ upc' = "ret"
  /\ UNCHANGED <<volVars, cbmode, wpc, entry, cluster, wi, ctx, cblog, wret>>
  /\ UNCHANGED <<searchVars, readVars, typeVars, nameVars, uclusterN>>
  /\ UNCHANGED sysVars

\* no entry read was 0: the loop ends at cluster_count
UsedAllUsed ==
  /\ upc = "loop"
  /\ uclusterN >= cluster_count
  /\ used' = fat_get_sector_for_cluster(hdr, uclusterN) * hdr.BPB_BytsPerSec
  /\ upc' = "ret"
  /\ UNCHANGED <<volVars, walkVars, searchVars, readVars, typeVars, nameVars, uclusterN>>
  /\ UNCHANGED sysVars

\* a FAT whose entries 0 and 1 hold the reserved values, with the clusters
\* from 2 up to firstFree - 1 in use (here: each the end of a chain)
UsedFat(h, t, firstFree) == [c \in 0..(firstFree - 1) |-> EocMark(t)]

\* BPB of a FAT16 volume of 4090 clusters
Hdr16Small ==
  [BPB_BytsPerSec |-> 512, BPB_SecPerClus |-> 1, BPB_RsvdSecCnt |-> 1,
   BPB_NumFATs |-> 2, BPB_RootEntCnt |-> 32, BPB_TotSec16 |-> 4125, BPB_FATSz16 |-> 16,
   BPB_TotSec32 |-> 0, BPB_FATSz32 |-> 0, BPB_RootClus |-> 0]

\* the volumes: some clusters in use, or all of them; FAT32, FAT16 and FAT12
UsedVolumes ==
  {[h |-> h, firstFree |-> f] : h \in {Hdr16, Hdr32}, f \in 2..(2 + MaxUsedClusters)}
  \cup {[h |-> Hdr16Small, firstFree |-> Hdr16Small.BPB_TotSec16],
        [h |-> Hdr12, firstFree |-> 2]}

InitUsed ==
  /\ \E v \in UsedVolumes :
       /\ hdr = v.h
       /\ fat = UsedFat(v.h, fat_get_type(v.h), v.firstFree)
  /\ ft = fat_unknown
  /\ dirs = <<>>
  /\ upc = "idle"
  /\ uclusterN = 0
  /\ used = 0
  /\ WalkerOff
  /\ ReaderOff
  /\ tpc = "off"
  /\ npc = "off"
  /\ nentry = <<>>
  /\ destbuf = <<>>
  /\ SysOff

NextUsed ==
  \/ UsedCall
  \/ UsedFat12
  \/ UsedNextCluster
  \/ UsedFreeFound
  \/ UsedAllUsed

SpecUsed == InitUsed /\ [][NextUsed]_vars

-----------------------------------------------------------------------------
(* Plain walks on volumes whose FAT is damaged: the chain of the directory *)
(* runs into a free cluster, or back to its first cluster.                 *)

DamagedScenarios ==
  {[layout |-> <<i>>, shape |-> s, fill |-> "full", more |-> m, last |-> e] :
     i \in WalkItems, s \in {"chain32", "chain16"}, m \in {0, 1},
     e \in {"eoc", "bad", "free", "cycle"}}
  \cup {[layout |-> <<i>>, shape |-> "flat16", fill |-> "zero", more |-> 0,
         last |-> "eoc"] : i \in WalkItems}

InitDamaged ==
  /\ \E sc \in DamagedScenarios : WalkVolume(sc)
  /\ cbmode = "record"
  /\ wpc = "idle"
  /\ wi = 0
  /\ \E iv \in BOOLEAN : ctx = [ZeroWalkCtx EXCEPT !.is_valid = iv]
  /\ cblog = <<>>
  /\ fatreads = <<>>
  /\ wret = "none"
  /\ spc = "off"
  /\ abspath = <<>>
  /\ sctx = fat_init_search_ctx(<<>>, FALSE)
  /\ err = 0
  /\ errset = FALSE
  /\ sret = NULL
  /\ todo = <<>>
  /\ done = <<>>
  /\ walks = 0
  /\ ReaderOff
  /\ OthersOff
  /\ SysOff

NextWalk ==
  \/ WalkCall
  \/ WalkLongSlot
  \/ WalkVolumeId
  \/ WalkNoMoreEntries
  \/ WalkEmptyDir
  \/ WalkRealEntry
  \/ WalkFlatRootDone
  \/ WalkEndOfChain
  \/ WalkBadCluster
  \/ WalkNextCluster

SpecDamaged == InitDamaged /\ [][NextWalk]_vars

Init == InitWalk \/ InitSearch

Next ==
  \/ WalkCall
  \/ WalkLongSlot
  \/ WalkVolumeId
  \/ WalkNoMoreEntries
  \/ WalkEmptyDir
  \/ WalkRealEntry
  \/ WalkFlatRootDone
  \/ WalkEndOfChain
  \/ WalkBadCluster
  \/ WalkNextCluster
  \/ SearchRootOnly
  \/ SearchCall
  \/ SearchDescend
  \/ SearchReturn
  \/ SearchAgain

Spec == Init /\ [][Next]_vars

NextRead ==
  \/ ReadCall
  \/ ReadAssertSize
  \/ ReadRemaining
  \/ ReadFat12
  \/ ReadEndOfChain
  \/ ReadBadCluster
  \/ ReadNextCluster

SpecRead == InitRead /\ [][NextRead]_vars

\* fat_read_whole_file is a sequential loop: once called it runs on
SpecReadFair == InitRead /\ [][NextRead]_vars /\ WF_vars(NextRead)

-----------------------------------------------------------------------------
(* What the claims speak about: the directory a plain walk runs on, slot   *)
(* by slot in the order it is stored, and the kinds of its slots.          *)

\* the clusters of the chain that starts at c
RECURSIVE ChainFrom(_, _)
ChainFrom(c, fuel) ==
  IF fuel = 0 \/ c \notin DOMAIN dirs THEN <<>>
  ELSE LET val == fat_read_fat_entry(ft, c)
       IN  <<c>> \o (IF fat_is_end_of_clusterchain(ft, val) \/ fat_is_bad_cluster(ft, val)
                       THEN <<>> ELSE ChainFrom(val, fuel - 1))

\* the pointers to the slots of the directory given to a plain walk
DirPtrs ==
  IF 0 \in DOMAIN dirs THEN [k \in 1..Len(dirs[0]) |-> <<0, k - 1>>]
  ELSE LET ch == ChainFrom(ChainOrder[1], Len(ChainOrder))
       IN  Flatten([n \in 1..Len(ch) |->
                      [k \in 1..entries_per_cluster |-> <<ch[n], k - 1>>]])

PosOf(D, ptr) == CHOOSE k \in 1..Len(D) : D[k] = ptr

\* the number of slots of the directory the walk is past
WalkedCount ==
  IF wpc = "idle" THEN 0 ELSE PosOf(DirPtrs, <<entry[1], 0>>) - 1 + wi

IsLongSlot(ptr) == DIR_Attr(Deref(ptr)) = 15
IsVolSlot(ptr) == ~IsLongSlot(ptr) /\ Bit(DIR_Attr(Deref(ptr)), 3)
IsTerminator(ptr) == ~IsLongSlot(ptr) /\ ~IsVolSlot(ptr) /\ Deref(ptr)[1] = 0
IsDeleted(ptr) == ~IsLongSlot(ptr) /\ ~IsVolSlot(ptr) /\ Deref(ptr)[1] = 229
IsLive(ptr) ==
  ~IsLongSlot(ptr) /\ ~IsVolSlot(ptr) /\ Deref(ptr)[1] # 0 /\ Deref(ptr)[1] # 229

Delivered(ptr) == {j \in 1..Len(cblog) : cblog[j].entry = ptr}
NoStopAsked == \A j \in 1..Len(cblog) : cblog[j].ret = 0

\* the length of the run of long-name slots stored directly before slot k
RECURSIVE RunLen(_, _)
RunLen(D, k) == IF k = 1 \/ ~IsLongSlot(D[k - 1]) THEN 0 ELSE 1 + RunLen(D, k - 1)

\* the characters one long-name slot contributes: the low bytes of its units
\* before the first unit whose low byte is 0x00 or 0xFF
SlotChars(le) ==
  LET u == LongUnits(le)
      S == {j \in 1..13 : u[j].lo = 0 \/ u[j].lo = 255}
      n == IF S = {} THEN 13 ELSE (CHOOSE j \in S : \A i \in S : j <= i) - 1
  IN  [j \in 1..n |-> u[j].lo]

\* a slot that invalidates the chain: a unit with a nonzero high byte met
\* before the padding, or a collected character outside the whitelist
SlotInvalidates(le) ==
  LET u == LongUnits(le)
      n == Len(SlotChars(le))
  IN  \/ \E j \in 1..13 : j <= n + 1 /\ u[j].hi # 0
      \/ \E j \in 1..n : u[j].lo \notin fat32_valid_chars

\* the run of n slots before slot k is a well-formed chain for that entry:
\* ordinals n..1, the checksum of the entry's name in every slot, only
\* whitelisted ASCII characters, and 0x0000 where a slot's characters end
WellFormedRun(D, k, n) ==
  /\ n >= 1 /\ n <= 20
  /\ \A p \in 1..n :
       LET le == Deref(D[k - n - 1 + p])
           u == LongUnits(le)
           m == Len(SlotChars(le))
       IN  /\ LDIR_Ord(le) % 64 = n + 1 - p
           /\ LDIR_Chksum(le) = shortname_checksum(DIR_Name(Deref(D[k])))
           /\ ~SlotInvalidates(le)
           /\ m < 13 => u[m + 1].lo = 0

\* the name of a chain: the slots' characters in ascending ordinal order
ChainName(D, k, n) == Flatten([q \in 1..n |-> SlotChars(Deref(D[k - q]))])

LowerSeq(sq) == [j \in 1..Len(sq) |-> IF sq[j] \in 65..90 THEN sq[j] + 32 ELSE sq[j]]

\* the decoded 8.3 name of the entry a callback record is about
AliasOf(rec) == CStr(fat_get_short_name(Deref(rec.entry)))

\* the component of a callback record is the last of its path
FinalComponent(rec) == rec.rest = <<>>

SearchDone == cbmode = "search" /\ spc = "done"

-----------------------------------------------------------------------------
(* C1 *)

\* C1 as claimed: when the resolver has returned, every entry that was
\* delivered with a long name and whose 8.3 alias equals, ignoring case, the
\* final component of the path is the entry returned, with error 0
\* ("/LONGFI~1.TXT" resolves to LongFileNameExample.txt).
C1_AliasOfLongEntryResolves ==
  SearchDone =>
    \A j \in 1..Len(cblog) :
      (/\ cblog[j].long_name # NULL
       /\ FinalComponent(cblog[j])
       /\ LowerSeq(AliasOf(cblog[j])) = LowerSeq(cblog[j].comp))
      => (sret = cblog[j].entry /\ err = 0)

\* C1 as amended: an entry delivered with a long name is not matched by its
\* 8.3 alias: when the final component equals the alias ignoring case but is
\* not byte-for-byte the long name, the callback goes on (returns 0), that
\* entry is not the one returned, and when no entry matched at all the
\* resolver returns null with -ENOENT.
C1_AliasOfLongEntryNotMatched ==
  SearchDone =>
    \A j \in 1..Len(cblog) :
      (/\ cblog[j].long_name # NULL
       /\ FinalComponent(cblog[j])
       /\ LowerSeq(AliasOf(cblog[j])) = LowerSeq(cblog[j].comp)
       /\ cblog[j].long_name # cblog[j].comp)
      => /\ cblog[j].ret = 0
         /\ sret # cblog[j].entry
         /\ NoStopAsked => (sret = NULL /\ err = -ENOENT)

\* "/LONGFI~1.TXT" was looked up past the entry LongFileNameExample.txt
C1_Witness ==
  /\ SearchDone
  /\ \E j \in 1..Len(cblog) :
       /\ cblog[j].long_name = LongFileNameExample
       /\ cblog[j].comp = <<76, 79, 78, 71, 70, 73, 126, 49, 46, 84, 88, 84>>
       /\ FinalComponent(cblog[j])
  /\ sret = NULL

-----------------------------------------------------------------------------
(* C2 *)

\* C2 as claimed: after a plain walk that was never asked to stop, no deleted
\* slot (first name byte 0xE5) has received a callback, and every live entry
\* stored before the 0x00 terminator has received one, also those stored
\* after a deleted slot.
C2_DeletedSlotDoesNotEndWalk ==
  (cbmode = "record" /\ wpc = "ret" /\ NoStopAsked) =>
    LET D == DirPtrs
    IN  \A k \in 1..Len(D) :
          /\ IsDeleted(D[k]) => Delivered(D[k]) = {}
          /\ (IsLive(D[k]) /\ \A m \in 1..(k - 1) : ~IsTerminator(D[m]))
               => Delivered(D[k]) # {}

-----------------------------------------------------------------------------
(* C3 *)

\* C3 as claimed: when the resolver has returned after a non-final component
\* (one followed by '/' and at least one more character) matched an entry
\* that is not a directory, it returned null and reported -ENOTDIR.
C3_NonFinalNonDirIsENOTDIR ==
  SearchDone =>
    \A j \in 1..Len(cblog) :
      (/\ cblog[j].ret # 0
       /\ ~Bit(DIR_Attr(Deref(cblog[j].entry)), 4)
       /\ Len(cblog[j].rest) >= 2
       /\ cblog[j].rest[1] = 47)
      => (sret = NULL /\ err = -ENOTDIR)

-----------------------------------------------------------------------------
(* C4 *)

\* C4 as claimed: in a plain walk an entry is delivered with a non-null long
\* name only if every slot of the run of long-name slots stored directly
\* before it carries the checksum of the entry's 8.3 name; and an entry
\* delivered right after such a rejected one gets the name of its own
\* well-formed chain.
C4_LongNameOnlyIfEveryChecksumMatches ==
  cbmode = "record" =>
    LET D == DirPtrs
    IN  \A j \in 1..Len(cblog) :
          LET k == PosOf(D, cblog[j].entry)
              n == RunLen(D, k)
              chk == shortname_checksum(DIR_Name(Deref(D[k])))
              allmatch == \A m \in (k - n)..(k - 1) : LDIR_Chksum(Deref(D[m])) = chk
          IN  /\ cblog[j].long_name # NULL => allmatch
              /\ (/\ j > 1
                  /\ PosOf(D, cblog[j - 1].entry) = k - n - 1
                  /\ WellFormedRun(D, k, n)
                  /\ n < 20)
                 => cblog[j].long_name = ChainName(D, k, n)

-----------------------------------------------------------------------------
(* C5 *)

\* C5 as claimed: every call of fat_search_entry that returned, the one on
\* "/" included, has stored into *err one of 0, -ENOENT, -ENOTDIR, and the
\* stored value is 0 exactly when the returned entry is non-null.
C5_ErrAlwaysStored ==
  \A n \in 1..Len(done) :
    /\ done[n].errset
    /\ done[n].err \in {0, -ENOENT, -ENOTDIR}
    /\ done[n].err = 0 <=> done[n].ret # NULL

-----------------------------------------------------------------------------
(* C6 *)

\* C6: the caller resolved a path p of one or more components, without a
\* trailing '/', and then p followed by '/'.  If the first call returned an
\* entry e, its error was 0; the second call returned the same e with error
\* 0 if e is a directory, and null with -ENOTDIR if e is not.
C6_TrailingSlashNeedsDirectory ==
  (Len(done) = 2 /\ done[1].ret # NULL) =>
    /\ done[2].path = done[1].path \o <<47>>
    /\ done[1].err = 0
    /\ IF Bit(DIR_Attr(Deref(done[1].ret)), 4)
         THEN done[2].ret = done[1].ret /\ done[2].err = 0
         ELSE done[2].ret = NULL /\ done[2].err = -ENOTDIR

\* "/hello.txt" gave the file, "/hello.txt/" gave null
C6_Witness ==
  /\ Len(done) = 2
  /\ done[1].ret # NULL
  /\ ~Bit(DIR_Attr(Deref(done[1].ret)), 4)
  /\ done[2].ret = NULL

-----------------------------------------------------------------------------
(* C7 *)

\* C7: in path resolution the callback reports a match (returns nonzero) for
\* an entry delivered with a long name exactly when the component is
\* byte-for-byte that long name, and for an entry delivered without one
\* exactly when the component equals its decoded 8.3 name ignoring letter
\* case; and when no entry matched, the resolver returns null with -ENOENT.
C7_LongNameCaseSensitive ==
  cbmode = "search" =>
    /\ \A j \in 1..Len(cblog) :
         IF cblog[j].long_name # NULL
           THEN cblog[j].ret # 0 <=> cblog[j].long_name = cblog[j].comp
           ELSE cblog[j].ret # 0 <=>
                  LowerSeq(AliasOf(cblog[j])) = LowerSeq(cblog[j].comp)
    /\ (spc = "done" /\ Tail(abspath) # <<>> /\ NoStopAsked)
         => (sret = NULL /\ err = -ENOENT)

\* "/longfilenameexample.txt" met the entry LongFileNameExample.txt, did not
\* match it and ended with -ENOENT
C7_Witness ==
  /\ SearchDone
  /\ \E j \in 1..Len(cblog) :
       /\ cblog[j].long_name = LongFileNameExample
       /\ cblog[j].comp # LongFileNameExample
       /\ LowerSeq(cblog[j].comp) = LowerSeq(LongFileNameExample)
       /\ cblog[j].ret = 0
  /\ err = -ENOENT

-----------------------------------------------------------------------------
(* C8 *)

\* C8 as claimed: in a plain walk every entry that directly follows a
\* well-formed chain of 1 to 20 long-name slots is delivered with the name
\* of that chain, the chain of 20 slots and 260 characters included.
C8_WellFormedChainReassembled ==
  cbmode = "record" =>
    LET D == DirPtrs
    IN  \A j \in 1..Len(cblog) :
          LET k == PosOf(D, cblog[j].entry)
              n == RunLen(D, k)
          IN  WellFormedRun(D, k, n) => cblog[j].long_name = ChainName(D, k, n)

-----------------------------------------------------------------------------
(* C9 *)

\* the run of long-name slots before slot k holds a slot that invalidates
\* the chain, and every slot stored from that one on has its checksum
InvalidatedRun(D, k) ==
  \E q \in (k - RunLen(D, k))..(k - 1) :
    /\ SlotInvalidates(Deref(D[q]))
    /\ \A m \in q..(k - 1) : LDIR_Chksum(Deref(D[m])) = LDIR_Chksum(Deref(D[q]))

C9_DeliveredOnceWithoutName ==
  cbmode = "record" =>
    LET D == DirPtrs
    IN  /\ \A j \in 1..Len(cblog) :
             InvalidatedRun(D, PosOf(D, cblog[j].entry)) => cblog[j].long_name = NULL
        /\ \A k \in 1..WalkedCount :
             (IsLive(D[k]) /\ InvalidatedRun(D, k))
               => Cardinality(Delivered(D[k])) = 1

C9_InvalidChainStaysAsItIs ==
  (/\ cbmode = "record"
   /\ InSlots
   /\ is_long_name_entry(CurSlot)
   /\ ~ctx.is_valid
   /\ ctx.lname_chksum = LDIR_Chksum(CurSlot))
  => (ctx'.lname_sz = ctx.lname_sz /\ ctx'.lname_buf = ctx.lname_buf)

\* C9: a long-name chain invalidated during decoding (a unit with a nonzero
\* high byte, a character outside the whitelist) does not make the walk
\* fail: the short entry after the chain is delivered exactly once, with a
\* null long name; and no step taken on a long-name slot of the same
\* checksum while the chain is invalid changes the accumulator.
C9_InvalidChainGivesNullName ==
  [] C9_DeliveredOnceWithoutName /\ [][C9_InvalidChainStaysAsItIs]_vars

\* an entry was delivered without a name after a chain of three slots whose
\* first stored slot had a unit with a nonzero high byte
C9_Witness ==
  /\ cbmode = "record"
  /\ \E j \in 1..Len(cblog) :
       LET D == DirPtrs
           k == PosOf(D, cblog[j].entry)
       IN  /\ RunLen(D, k) = 3
           /\ LongUnits(Deref(D[k - 3]))[1].hi # 0
           /\ InvalidatedRun(D, k)
           /\ cblog[j].long_name = NULL

-----------------------------------------------------------------------------
(* What the claims about fat_read_whole_file speak about.                  *)

ReadSize == DIR_FileSize(rentry)

\* the clusters of the file's chain, in order: from the entry's first
\* cluster along the FAT up to an end mark, a bad mark or a cluster seen before
RECURSIVE FileChainFrom(_, _)
FileChainFrom(c, seen) ==
  IF c < 2 \/ c \notin DOMAIN data \/ c \in seen THEN <<>>
  ELSE LET t == fat_get_type(hdr)
           val == fat_read_fat_entry(t, c)
       IN  <<c>> \o (IF fat_is_end_of_clusterchain(t, val) \/ fat_is_bad_cluster(t, val)
                       THEN <<>> ELSE FileChainFrom(val, seen \cup {c}))

FileChain == FileChainFrom(fat_get_first_cluster(rentry), {})

\* ceil(S / cs)
ClustersNeeded == (ReadSize + ClusterSize(hdr) - 1) \div ClusterSize(hdr)

\* the call the contract is about: a FAT16 or FAT32 volume, a buffer of at
\* least S bytes, a chain of at least ceil(S / cs) clusters
ReadContract ==
  /\ rpc \in {"idle", "loop", "ret", "panic"}
  /\ fat_get_type(hdr) # fat12_type
  /\ ReadSize <= Len(dest)
  /\ Len(FileChain) >= ClustersNeeded

RECURSIVE SumLen(_)
SumLen(cs) == IF cs = <<>> THEN 0 ELSE Head(cs).len + SumLen(Tail(cs))

\* C10: on a FAT16 or FAT32 volume (FAT12 is not supported), with a buffer of
\* at least S = DIR_FileSize bytes and a chain of at least ceil(S / cs)
\* clusters, fat_read_whole_file returns, never panics, and has then written
\* exactly S bytes: dest[i] for i < S is byte (i mod cs) of the (i div cs)-th
\* cluster of the chain from the entry's first cluster, dest[i] for i >= S is
\* what it was, and for S = 0 no byte is written and no FAT entry is read.
C10_ReadWritesExactlyTheFile ==
  ReadContract =>
    /\ rpc # "panic"
    /\ rpc = "ret" =>
         /\ SumLen(copies) = ReadSize
         /\ \A i \in 0..(ReadSize - 1) :
              dest[i + 1] = data[FileChain[(i \div ClusterSize(hdr)) + 1]]
                                [(i % ClusterSize(hdr)) + 1]
         /\ \A i \in ReadSize..(Len(dest) - 1) : dest[i + 1] = DestFill(i + 1)
         /\ ReadSize = 0 => fatreads = <<>> /\ \A k \in DOMAIN copies : copies[k].len = 0

\* a file of two clusters and one byte read into a larger buffer
C10_Witness ==
  /\ ReadContract
  /\ rpc = "ret"
  /\ ReadSize = 2 * ClusterSize(hdr) + 1
  /\ Len(dest) > ReadSize
  /\ Len(copies) = 3
  /\ Len(fatreads) = 2

-----------------------------------------------------------------------------
(* C11 *)

\* the k-th FAT read of the reader met an end mark or a bad mark
ReadMetMark(k) ==
  LET val == fat_read_fat_entry(ft, fatreads[k])
  IN  fat_is_end_of_clusterchain(ft, val) \/ fat_is_bad_cluster(ft, val)

\* C11: on a FAT16 or FAT32 volume, (a) once fat_read_whole_file has read,
\* after copying a full cluster with bytes still owed, a FAT entry that is an
\* end mark or the bad mark, it is in the fatal state (never returned, never
\* looping on); (b) every FAT read follows the copy of a full cluster and is
\* made with bytes still owed, the k-th read being of the k-th cluster
\* copied; (c) when it has returned, the cluster of the last copy, which
\* holds the last bytes of the file, is the one cluster copied whose FAT
\* entry was not read, whatever that entry is.
C11_MarkWithBytesOwedIsFatal ==
  (rpc \in {"loop", "ret", "panic"} /\ ft # fat12_type) =>
    /\ (\E k \in DOMAIN fatreads : ReadMetMark(k)) => rpc = "panic"
    /\ \A k \in DOMAIN fatreads :
         /\ k <= Len(copies)
         /\ copies[k].cluster = fatreads[k]
         /\ copies[k].len = ClusterSize(hdr)
         /\ k * ClusterSize(hdr) < ReadSize
    /\ rpc = "ret" => Len(fatreads) = Len(copies) - 1

\* a file cut short by an end mark ended in the fatal state, and so did one
\* cut short by a bad mark
C11_Witness ==
  /\ rpc = "panic"
  /\ ft # fat12_type
  /\ fatreads # <<>>
  /\ fat_is_end_of_clusterchain(ft, fat_read_fat_entry(ft, fatreads[Len(fatreads)]))

\* a file of exactly two clusters was read to the end: the FAT entry of its
\* second cluster is an end mark and was not read
C11_LastClusterEndMarkNotRead ==
  /\ rpc = "ret"
  /\ ft # fat12_type
  /\ ReadSize = 2 * ClusterSize(hdr)
  /\ Len(copies) = 2
  /\ Len(fatreads) = 1
  /\ fat_is_end_of_clusterchain(ft, fat_read_fat_entry(ft, copies[2].cluster))

-----------------------------------------------------------------------------
(* C12 *)

\* the BPB's own numbers, as the format defines them
BpbFATSz == IF hdr.BPB_FATSz16 # 0 THEN hdr.BPB_FATSz16 ELSE hdr.BPB_FATSz32
BpbTotSec == IF hdr.BPB_TotSec16 # 0 THEN hdr.BPB_TotSec16 ELSE hdr.BPB_TotSec32
BpbRootDirSectors ==
  LET bytes == hdr.BPB_RootEntCnt * 32
  IN  CHOOSE k \in 0..bytes :
        k * hdr.BPB_BytsPerSec >= bytes /\ (k = 0 \/ (k - 1) * hdr.BPB_BytsPerSec < bytes)
BpbMeta == hdr.BPB_RsvdSecCnt + (hdr.BPB_NumFATs * BpbFATSz) + BpbRootDirSectors

\* the data sectors; when the total is less than the sectors in front of the
\* data region the 32-bit difference wraps to 2^32 - (BpbMeta - BpbTotSec),
\* which is 2^31 or more here, so the cluster count is above every limit
BpbWraps == BpbTotSec < BpbMeta
BpbDataSec == BpbTotSec - BpbMeta

\* clusters < n, for clusters = DataSec / SecPerClus rounded down
BpbClustersBelow(n) == ~BpbWraps /\ BpbDataSec < n * hdr.BPB_SecPerClus

\* C12: for every BPB (sectors per cluster a power of two, as the format
\* requires), fat_get_type returns fat12 iff clusters < 4085, fat16 iff
\* 4085 <= clusters < 65525 and fat32 iff clusters >= 65525, with clusters =
\* (TotSec - (RsvdSecCnt + NumFATs * FATSz + RootDirSectors)) / SecPerClus in
\* 32-bit unsigned arithmetic; it never returns fat_unknown.
C12_TypeByClusterCount ==
  tpc = "ret" =>
    /\ ft \in {fat12_type, fat16_type, fat32_type}
    /\ ft = fat12_type <=> BpbClustersBelow(4085)
    /\ ft = fat16_type <=> (~BpbClustersBelow(4085) /\ BpbClustersBelow(65525))
    /\ ft = fat32_type <=> (BpbWraps \/ ~BpbClustersBelow(65525))

\* a volume of exactly 4085 clusters was classified, as FAT16
C12_Witness ==
  /\ tpc = "ret"
  /\ ~BpbWraps
  /\ BpbDataSec = 4085 * hdr.BPB_SecPerClus
  /\ ft = fat16_type

-----------------------------------------------------------------------------
(* C13 *)

\* the positions of the 0x00 slots of the directory (slots that are neither
\* long-name slots nor volume-id slots), and the first of them
Terminators == {k \in 1..Len(DirPtrs) : IsTerminator(DirPtrs[k])}
FirstTerminator == CHOOSE k \in Terminators : \A m \in Terminators : k <= m

PlainWalk == cbmode = "record" /\ wpc # "idle"

\* in a plain walk of a directory with a 0x00 slot: no callback was made for
\* that slot or a later one, the walk is not past it, the FAT entry of its
\* cluster or of a later one was not read, and a walk stopped at it has
\* returned 0
C13_NothingFromTerminatorOn ==
  (PlainWalk /\ Terminators # {}) =>
    LET D == DirPtrs
        T == FirstTerminator
    IN  /\ \A j \in 1..Len(cblog) : PosOf(D, cblog[j].entry) < T
        /\ WalkedCount <= T - 1
        /\ Len(fatreads) <= (T - 1) \div entries_per_cluster
        /\ T = 1 => cblog = <<>>
        /\ (wpc = "ret" /\ WalkedCount = T - 1 /\ NoStopAsked) => wret = 0

\* the step taken at a 0x00 slot is the return of 0, with no callback and no
\* FAT read
C13_TerminatorStep ==
  (PlainWalk /\ IsRealOrEnd /\ DIR_Name(CurSlot)[1] = 0)
    => (wpc' = "ret" /\ wret' = 0 /\ cblog' = cblog /\ fatreads' = fatreads)

\* C13: once fat_walk_directory meets a slot that is neither a long-name slot
\* nor a volume-id slot and whose first name byte is 0x00, it returns 0 at
\* once: no callback for that slot or any slot after it, no further FAT
\* read; a directory whose first slot is such a slot yields no callback.
C13_TerminatorEndsWalk ==
  [] C13_NothingFromTerminatorOn /\ [][C13_TerminatorStep]_vars

\* a walk returned at a 0x00 slot that has a live entry stored after it,
\* having delivered the entry stored before it
C13_Witness ==
  /\ PlainWalk
  /\ wpc = "ret"
  /\ wret = 0
  /\ Terminators # {}
  /\ WalkedCount = FirstTerminator - 1
  /\ cblog # <<>>
  /\ NoStopAsked
  /\ \E k \in 1..Len(DirPtrs) : k > FirstTerminator /\ IsLive(DirPtrs[k])

-----------------------------------------------------------------------------
(* C14 *)

\* the callback asked the plain walk to stop
StopAsked == cblog # <<>> /\ cblog[Len(cblog)].ret # 0

\* C14: in a plain walk only the last callback invocation can have returned
\* nonzero; once one has, the walk has returned, with 0, its slot index is
\* still at the entry it delivered last (no further slot was read) and the
\* FAT reads are those made before that entry's cluster (no further FAT
\* entry was read); the entry at which the stop was asked was itself
\* delivered.  Every walk that has returned, plain or of the resolver, has
\* returned 0.
C14_NonzeroStopsWalk ==
  /\ wpc = "ret" => wret = 0
  /\ wpc # "ret" => wret = "none"
  /\ PlainWalk =>
       /\ \A j \in 1..(Len(cblog) - 1) : cblog[j].ret = 0
       /\ StopAsked =>
            LET last == cblog[Len(cblog)]
            IN  /\ wpc = "ret"
                /\ EntryPtr = last.entry
                /\ WalkedCount = PosOf(DirPtrs, last.entry) - 1
                /\ Len(fatreads) =
                     IF cluster = 0 THEN 0
                     ELSE (PosOf(DirPtrs, last.entry) - 1) \div entries_per_cluster

\* a walk was stopped at its second entry, with a live entry stored after it
C14_Witness ==
  /\ PlainWalk
  /\ StopAsked
  /\ Len(cblog) = 2
  /\ wret = 0
  /\ \E k \in 1..Len(DirPtrs) :
       k > PosOf(DirPtrs, cblog[2].entry) /\ IsLive(DirPtrs[k])


-----------------------------------------------------------------------------
\* C15

\* the clusters of the walked directory, in chain order
WalkedChain == ChainFrom(ChainOrder[1], Len(ChainOrder))

\* a plain walk of a directory on a chain that ends with an end-of-chain mark,
\* no slot of which has a first name byte of 0x00, and whose callback has
\* returned 0 every time so far
C15_Case ==
  /\ PlainWalk
  /\ 0 \notin DOMAIN dirs
  /\ fat_is_end_of_clusterchain(ft,
       fat_read_fat_entry(ft, WalkedChain[Len(WalkedChain)]))
  /\ Terminators = {}
  /\ NoStopAsked

\* the walk is inside the chain, the FAT entries read are those of the
\* clusters it is past, in chain order, and it has returned only past the
\* last slot of the last cluster, after the read of that cluster's FAT entry
C15_InChain ==
  /\ wpc # "panic"
  /\ entry[1] \in Range(WalkedChain)
  /\ wi \in 0..entries_per_cluster
  /\ fatreads = SubSeq(WalkedChain, 1, Len(fatreads))
  /\ wpc = "slots" => Len(fatreads) = PosOf(WalkedChain, entry[1]) - 1
  /\ wpc = "ret" => WalkedCount = Len(DirPtrs) /\ fatreads = WalkedChain

\* a step at a slot goes to the slot that follows it in chain and index order
C15_SlotStep ==
  (C15_Case /\ InSlots /\ C15_Case') =>
     (wpc' = "slots" /\ WalkedCount' = WalkedCount + 1 /\ fatreads' = fatreads)

\* C15: a walk of a directory stored on the chain c0 -> ... -> ck -> EOC, no
\* slot of which is a 0x00 terminator, with a callback that always returns 0,
\* examines the slots of c0 .. ck in chain and index order, each once, reads
\* the FAT entry of a cluster only after its last slot, and returns at the
\* end-of-chain mark of ck with every slot examined and none outside.
C15_ChainWalkedToItsEnd ==
  /\ [](C15_Case => C15_InChain)
  /\ [][C15_SlotStep]_vars

\* the same with no deleted slot in the directory: the walk reaches the end of
\* the chain
C15_NoDeletedSlot == \A k \in 1..Len(DirPtrs) : ~IsDeleted(DirPtrs[k])

C15_ChainWithoutDeletedSlotWalkedToItsEnd ==
  /\ [](C15_Case /\ C15_NoDeletedSlot => C15_InChain)
  /\ [][C15_NoDeletedSlot => C15_SlotStep]_vars

\* a walk of three clusters has returned at the end of the chain
C15_ThreeClustersWalked ==
  /\ C15_Case
  /\ C15_NoDeletedSlot
  /\ Len(WalkedChain) = 3
  /\ wpc = "ret"
  /\ fatreads = WalkedChain

\* a walk has returned at a deleted slot with the rest of the chain unread
C15_ReturnedAtDeletedSlot ==
  /\ C15_Case
  /\ Len(WalkedChain) = 3
  /\ wpc = "ret"
  /\ IsDeleted(EntryPtr)
  /\ fatreads = <<>>


-----------------------------------------------------------------------------
\* C16

\* a walk given cluster 0 and the pointer to the flat root of a FAT16 volume
FlatRootWalk ==
  /\ wpc # "idle"
  /\ wpc # "panic"
  /\ cluster = 0

\* the live entries of the flat root the walk is not given to see
BeyondChunk ==
  {k \in (entries_per_cluster + 1)..Len(dirs[0]) : IsLive(<<0, k - 1>>)}

\* C16: a walk called with cluster 0 stays in the entries_per_cluster slots
\* that start at the entry pointer fat_get_rootdir gave, delivers entries of
\* that chunk only, reads no FAT entry, and once past the last slot of the
\* chunk its next step is the return, whatever the root holds further on.
C16_FlatRootIsOneChunk ==
  /\ [](FlatRootWalk =>
          /\ entry = fat_get_rootdir(ft).entry
          /\ wi \in 0..entries_per_cluster
          /\ fatreads = <<>>
          /\ Len(cblog) <= entries_per_cluster
          /\ \A j \in 1..Len(cblog) :
               /\ cblog[j].entry[1] = 0
               /\ cblog[j].entry[2] \in 0..(entries_per_cluster - 1)
          /\ wpc = "ret" => wret = 0)
  /\ [][(FlatRootWalk /\ AtClusterEnd) =>
          (wpc' = "ret" /\ wret' = 0 /\ fatreads' = <<>> /\ cblog' = cblog)]_vars

\* a walk of a root of 32 live entries has returned after 16 callbacks
C16_Witness ==
  /\ FlatRootWalk
  /\ wpc = "ret"
  /\ wi = entries_per_cluster
  /\ Len(cblog) = entries_per_cluster
  /\ Cardinality(BeyondChunk) = entries_per_cluster


-----------------------------------------------------------------------------
\* C17

\* the number of bytes of s before its first space
BeforeSpace(s) ==
  IF \E j \in 1..Len(s) : s[j] = 32
    THEN (CHOOSE j \in 1..Len(s) : s[j] = 32 /\ \A m \in 1..(j - 1) : s[m] # 32) - 1
    ELSE Len(s)

NTResBit(e, b) == (DIR_NTRes(e) \div (2 ^ b)) % 2 = 1

\* C17: fat_get_short_name writes the bytes of DIR_Name[0..8) before the first
\* space, then, only if DIR_Name[8] is not a space, a '.' and the bytes of
\* DIR_Name[8..11) before the first space, then a NUL, and nothing else; the
\* basename bytes are lowercased iff DIR_NTRes bit 3 is set, the extension
\* bytes iff bit 4 is set; with DIR_Name[8] a space no dot is written.
C17_ShortNameOfEntry ==
  npc = "ret" =>
    LET name == DIR_Name(nentry)
        nb == BeforeSpace(SubSeq(name, 1, 8))
        nx == BeforeSpace(SubSeq(name, 9, 11))
        hasExt == name[9] # 32
        end == nb + (IF hasExt THEN 1 + nx ELSE 0) + 1
    IN  /\ Len(destbuf) = Len(NameBuf)
        /\ \A j \in 1..nb :
             destbuf[j] = IF NTResBit(nentry, 3) THEN tolower(name[j]) ELSE name[j]
        /\ hasExt =>
             /\ destbuf[nb + 1] = 46
             /\ nx >= 1
             /\ \A j \in 1..nx :
                  destbuf[nb + 1 + j] =
                    IF NTResBit(nentry, 4) THEN tolower(name[8 + j]) ELSE name[8 + j]
        /\ destbuf[end] = 0
        /\ \A j \in (end + 1)..Len(destbuf) : destbuf[j] = NameBuf[j]

\* "ReadMe  Ab " with bit 4 alone gives "ReadMe.ab"
C17_Witness ==
  /\ npc = "ret"
  /\ DIR_Name(nentry) = <<82, 101, 97, 100, 77, 101, 32, 32, 65, 98, 32>>
  /\ DIR_NTRes(nentry) = 16
  /\ CStr(destbuf) = <<82, 101, 97, 100, 77, 101, 46, 97, 98>>

\* "HELLO      " with bit 3 gives "hello", with no dot
C17_NoExtensionNoDot ==
  /\ npc = "ret"
  /\ DIR_Name(nentry) = <<72, 69, 76, 76, 79, 32, 32, 32, 32, 32, 32>>
  /\ DIR_NTRes(nentry) = 8
  /\ CStr(destbuf) = <<104, 101, 108, 108, 111>>


-----------------------------------------------------------------------------
\* C18

\* C18: every cluster number passed to fat_read_fat_entry, by the walker, by
\* the file reader or by fat_get_used_bytes, is 0 or at least 2.
C18_ClusterOneNeverPassed ==
  \A j \in 1..Len(fatreads) : fatreads[j] # 1

\* fat_get_used_bytes has returned after reading the FAT entries of the
\* cluster numbers 0, 1, 2, 3 of a volume with one cluster in use
C18_UsedBytesReadsEntryOne ==
  /\ upc = "ret"
  /\ fatreads = <<0, 1, 2, 3>>
  /\ used = fat_get_sector_for_cluster(hdr, 3) * hdr.BPB_BytsPerSec


-----------------------------------------------------------------------------
\* C19

\* the slot q is stored directly after the slot p: the next of its cluster,
\* or the first of the cluster that follows in the chain
Follows(p, q) ==
  \/ q = <<p[1], p[2] + 1>>
  \/ /\ p[1] # 0
     /\ p[2] = entries_per_cluster - 1
     /\ q = <<fat_read_fat_entry(ft, p[1]), 0>>

\* the walk is at the slot stored directly after the entry delivered last
JustDelivered ==
  /\ InSlots
  /\ cblog # <<>>
  /\ Follows(cblog[Len(cblog)].entry, EntryPtr)

\* a callback was made in the step
CallbackMade == Len(cblog') = Len(cblog) + 1

C19_AfterCallback ==
  CallbackMade => (ctx'.lname_sz = 0 /\ ctx'.lname_chksum = -1)

C19_FirstLongSlotRestarts ==
  (JustDelivered /\ is_long_name_entry(CurSlot)) =>
     LET chars == SlotChars(CurSlot)
     IN  /\ ctx'.lname_chksum = LDIR_Chksum(CurSlot)
         /\ ctx'.lname_chksum \in 0..255
         /\ ctx'.is_valid = ~SlotInvalidates(CurSlot)
         /\ ctx'.is_valid =>
              /\ ctx'.lname_sz = Len(chars)
              /\ \A j \in 1..Len(chars) :
                   ctx'.lname_buf[j] = chars[Len(chars) + 1 - j]

C19_NullNameAfterRealEntry ==
  \A j \in 2..Len(cblog) :
     Follows(cblog[j - 1].entry, cblog[j].entry) => cblog[j].long_name = NULL

\* C19: every callback invocation, whatever it returns, leaves the walk
\* context with lname_sz = 0 and lname_chksum = -1; an entry stored directly
\* after a delivered entry is delivered with a null long name; and a
\* long-name slot stored directly after a delivered entry restarts the
\* accumulator as empty and valid (its checksum, its characters alone),
\* whether or not the chain before was valid.
C19_LongNameStateResetByCallback ==
  /\ [] C19_NullNameAfterRealEntry
  /\ [][C19_AfterCallback /\ C19_FirstLongSlotRestarts]_vars

\* an entry whose chain was invalidated has been delivered without a long
\* name, and the long-name slot stored after it has restarted the accumulator
C19_Witness ==
  /\ wpc = "slots"
  /\ wi >= 2
  /\ cblog # <<>>
  /\ cblog[Len(cblog)].entry = <<entry[1], entry[2] + wi - 2>>
  /\ cblog[Len(cblog)].long_name = NULL
  /\ \E k \in 0..(wi - 3) :
       /\ IsLongSlot(<<entry[1], k>>)
       /\ SlotInvalidates(Deref(<<entry[1], k>>))
  /\ IsLongSlot(<<entry[1], entry[2] + wi - 1>>)
  /\ ctx.is_valid
  /\ ctx.lname_sz > 0

\* two entries stored one after the other have both been delivered, the first
\* with its long name, the second with none, and the callback then stopped
C19_SecondEntryHasNoName ==
  /\ Len(cblog) = 2
  /\ Follows(cblog[1].entry, cblog[2].entry)
  /\ cblog[1].long_name # NULL
  /\ cblog[2].long_name = NULL
  /\ cblog[2].ret # 0
  /\ ctx.lname_sz = 0
  /\ ctx.lname_chksum = -1


-----------------------------------------------------------------------------
\* C20

\* the components of a path: the pieces between its '/', an empty piece
\* after a trailing '/' not counted
PathComponents(p) ==
  Cardinality({j \in 1..(Len(p) - 1) : p[j] = 47})

IsSuffix(t, p) == Len(t) <= Len(p) /\ SubSeq(p, Len(p) - Len(t) + 1, Len(p)) = t

\* the callback record is a match of a directory entry for a component that
\* is not the last of the path
DirMatchOfNonFinal(rec) ==
  /\ rec.ret # 0
  /\ directory(Deref(rec.entry))
  /\ IF rec.long_name # NULL THEN rec.long_name = rec.comp
     ELSE LowerSeq(AliasOf(rec)) = LowerSeq(rec.comp)
  /\ Len(rec.rest) >= 2
  /\ rec.rest[1] = 47
  /\ IsSuffix(rec.comp \o rec.rest, abspath)

\* a walk after the first is started from a match of a directory for a
\* non-final component, on that directory's first cluster, with the path
\* cursor past the component and its '/'
C20_DescentStep ==
  (walks' = walks + 1 /\ walks >= 1) =>
     /\ cblog # <<>>
     /\ DirMatchOfNonFinal(cblog[Len(cblog)])
     /\ sctx.path = Tail(cblog[Len(cblog)].rest)
     /\ sctx'.path = sctx.path
     /\ sctx.pcl = 0
     /\ cluster' = fat_get_first_cluster(Deref(cblog[Len(cblog)].entry))
     /\ cluster' # 0

\* a callback that fetches a component (fat_fetch_next_component) is made
\* with pcl = 0
C20_FetchStep ==
  (cbmode = "search" /\ CallbackMade /\ sctx'.pc # sctx.pc) => sctx.pcl = 0

\* C20: fat_search_entry starts a further walk only after its callback
\* matched a directory entry for a non-final component and moved the path
\* cursor past that component and its '/'; it makes at most as many walks as
\* the path has components; the pending sub-directory cluster is 0 when it
\* returns; and fat_fetch_next_component is entered with pcl = 0 only.
C20_OneWalkPerComponent ==
  /\ [](cbmode = "search" =>
          /\ walks <= PathComponents(abspath)
          /\ spc = "walk" => walks >= 1
          /\ spc = "done" => sctx.subdir_cluster = 0)
  /\ [][C20_DescentStep /\ C20_FetchStep]_vars

\* "/a/./b/../b/c.bin" has been resolved with one walk per component
C20_Witness ==
  /\ SearchDone
  /\ PathComponents(abspath) = 6
  /\ walks = 6
  /\ sret # NULL
  /\ sctx.subdir_cluster = 0


-----------------------------------------------------------------------------
\* C21

\* C21: in every state of a walk lname_sz is at most 255, so that the
\* characters appended and the NUL stored at index lname_sz lie inside the
\* 256 bytes of lname_buf.
C21_LongNameFitsBuffer ==
  wpc \in {"slots", "ret", "panic"} => ctx.lname_sz <= LNameBufSize - 1

\* the accumulator holds the 260 characters of a chain of 20 slots: the last
\* four were stored past the end of lname_buf
C21_LongNamePastBuffer ==
  /\ wpc = "slots"
  /\ ctx.is_valid
  /\ ctx.lname_sz = 260
  /\ Len(ctx.past) >= 4


-----------------------------------------------------------------------------
\* C22

\* C22: during one call of fat_walk_directory no slot is passed to the
\* callback twice, whatever the FAT holds for the clusters of the directory.
C22_NoSlotDeliveredTwice ==
  cbmode = "record" =>
    \A j, k \in 1..Len(cblog) : cblog[j].entry = cblog[k].entry => j = k

\* the FAT entry of the directory's only cluster is 0: the walk went on with
\* cluster 0 and the old entry pointer, delivered the 16 entries of the
\* cluster a second time and then returned
C22_DeliveredTwiceAfterFreeCluster ==
  /\ cbmode = "record"
  /\ wpc = "ret"
  /\ cluster = 0
  /\ fatreads = <<ChainOrder[1]>>
  /\ Len(cblog) = 2 * entries_per_cluster
  /\ \A j \in 1..entries_per_cluster :
       cblog[j].entry = cblog[j + entries_per_cluster].entry

\* the chain 2 -> 5 -> 2: the walk is in cluster 2 for the second time
C22_DeliveredTwiceOnCycle ==
  /\ cbmode = "record"
  /\ wpc = "slots"
  /\ fatreads = <<2, 5>>
  /\ cluster = 2
  /\ Len(cblog) > 2 * entries_per_cluster
  /\ cblog[1].entry = cblog[2 * entries_per_cluster + 1].entry


-----------------------------------------------------------------------------
\* C23

\* ceil(DIR_FileSize / cluster_size), and 1 for an empty file
CopiesAllowed == IF ClustersNeeded = 0 THEN 1 ELSE ClustersNeeded

ReadStopped == rpc \in {"ret", "panic"}

\* the copies and FAT reads made so far are within the bound, and while the
\* loop runs the bound has not been reached: every copy is of the next
\* cluster_size bytes of the file, and a full cluster was copied only with
\* bytes of the file still to come
C23_Bounded ==
  rpc \in {"loop", "ret", "panic"} =>
    /\ Len(copies) <= CopiesAllowed
    /\ Len(fatreads) <= CopiesAllowed - 1
    /\ rpc = "loop" =>
         /\ Len(copies) < CopiesAllowed
         /\ written = Len(copies) * ClusterSize(hdr)
    /\ \A k \in DOMAIN copies :
         copies[k].len = ClusterSize(hdr) /\ k \in DOMAIN fatreads
           => ReadSize - k * ClusterSize(hdr) > 0

\* every turn of the loop makes one copy, and the assertion that follows the
\* copy of a full cluster holds
C23_LoopStep ==
  rpc = "loop" =>
    /\ Len(copies') = Len(copies) + 1
    /\ written' # written => (ReadSize - written' > 0)

\* C23: for any FAT contents (an end mark, a bad mark, a free cluster or a
\* cycle in the chain) fat_read_whole_file stops, by returning or in the
\* fatal state, after at most ceil(DIR_FileSize / cluster_size) cluster
\* copies, one for an empty file, and at most one FAT read fewer; the
\* assertion that bytes remain after the copy of a full cluster never fails.
C23_ReadStopsWithinFileSize ==
  /\ [] C23_Bounded
  /\ [][C23_LoopStep]_vars
  /\ <> ReadStopped

\* a file of three clusters whose chain is the cycle 4 -> 7 -> 4 was read to
\* its end: three copies, the third of cluster 4 again, two FAT reads
C23_Witness ==
  /\ rpc = "ret"
  /\ ft # fat12_type
  /\ Len(copies) = 3
  /\ copies[1].cluster = copies[3].cluster
  /\ copies[2].cluster # copies[1].cluster
  /\ Len(fatreads) = 2
  /\ ReadSize > 2 * ClusterSize(hdr)

-----------------------------------------------------------------------------
(* The file system calls of src/kernel/fs/fs_syscalls.c.                   *)
(* Two threads of one process share curr->pi->handles.  The kernel runs on *)
(* one processor: while the nesting count of disable_preemption() is above *)
(* zero, only the thread that runs goes on.  A thread's step from one      *)
(* place where it can be preempted to the next is one action.              *)

MaxFds == 2     \* ARRAY_SIZE(curr->pi->handles)
MaxCalls == 4   \* the system calls begun in one behaviour
MaxOpens == 2   \* the handles exvfs_open makes in one behaviour

EBADF == 9
EFAULT == 14
EMFILE == 24
ENAMETOOLONG == 36

Threads == {"t1", "t2"}
NullHandle == 0
Fds == 0..(MaxFds - 1)
FdArgs == (-1)..MaxFds

\* everything but the state of the system calls
fatVars == <<volVars, walkVars, searchVars, readVars, typeVars, nameVars,
             usedVars>>

is_fd_valid(fd) == fd >= 0 /\ fd < MaxFds

get_free_handle_num(hs) ==
  IF \E fd \in Fds : hs[fd] = NullHandle
  THEN CHOOSE fd \in Fds :
         /\ hs[fd] = NullHandle
         /\ \A g \in Fds : g < fd => hs[g] # NullHandle
  ELSE -1

disable_preemption(n) == n + 1
enable_preemption(n) == n - 1

\* get_fs_handle(fd) with the nesting count n on entry: the handle it returns
\* and the nesting count it leaves
get_fs_handle(fd, n) ==
  [handle  |-> IF is_fd_valid(fd) /\ handles[fd] # NullHandle
               THEN handles[fd] ELSE NullHandle,
   preempt |-> enable_preemption(disable_preemption(n))]

\* the handle is an object exvfs_open made and exvfs_close has not destroyed
IsOpen(h) == h \in DOMAIN objs /\ objs[h].open

\* one call of an exvfs function on a handle, as the thread's log keeps it
Used(op, h) == [op |-> op, h |-> h, open |-> IsOpen(h)]

exvfs_open(os) == Append(os, [open |-> TRUE, shlocks |-> 0])

exvfs_close(os, h) ==
  IF h \in DOMAIN os THEN [os EXCEPT ![h].open = FALSE] ELSE os

exvfs_shlock(os, h) ==
  IF h \in DOMAIN os /\ os[h].open
  THEN [os EXCEPT ![h].shlocks = @ + 1] ELSE os

exvfs_shunlock(os, h) ==
  IF h \in DOMAIN os /\ os[h].open /\ os[h].shlocks > 0
  THEN [os EXCEPT ![h].shlocks = @ - 1] ELSE os

UserTask ==
  [pc |-> "user", call |-> "none", fd |-> -1, handle |-> NullHandle,
   ret |-> 0, pre0 |-> 0, log |-> <<>>]

Panicked == \E t \in Threads : task[t].pc = "panic"

\* the scheduler lets thread t make a step
Runs(t) == ~Panicked /\ (preempt = 0 \/ curr = t)

\* thread t is in user mode and makes a system call
CanCall(t) == Runs(t) /\ task[t].pc = "user" /\ ncalls < MaxCalls

\* the locals of thread t at the entry of the system call
Enter(call, fd) ==
  [UserTask EXCEPT !.call = call, !.fd = fd, !.pre0 = preempt]

\* the system call returns ret to user mode
Return(rec, ret) == [rec EXCEPT !.pc = "user", !.ret = ret]

At(t, pc) == Runs(t) /\ task[t].pc = pc

InitSys ==
  /\ handles = [fd \in Fds |-> NullHandle]
  /\ preempt = 0
  /\ curr = "t1"
  /\ objs = <<>>
  /\ task = [t \in Threads |-> UserTask]
  /\ ncalls = 0
  /\ hdr = Hdr32
  /\ ft = fat32_type
  /\ dirs = <<>>
  /\ fat = <<>>
  /\ WalkerOff
  /\ ReaderOff
  /\ OthersOff

\* sys_close up to the test of the handle: disable_preemption() and
\* get_fs_handle(fd)
SysCloseCall ==
  \E t \in Threads, fd \in FdArgs :
    /\ CanCall(t)
    /\ LET g == get_fs_handle(fd, disable_preemption(preempt))
       IN  /\ preempt' = g.preempt
           /\ task' = [task EXCEPT ![t] =
                         [Enter("sys_close", fd) EXCEPT
                            !.pc = "close_check", !.handle = g.handle]]
    /\ curr' = t
    /\ ncalls' = ncalls + 1
    /\ UNCHANGED <<handles, objs>>
    /\ UNCHANGED fatVars

\* sys_close: no handle, 'goto end' and return -EBADF
SysCloseBadFd ==
  \E t \in Threads :
    /\ At(t, "close_check")
    /\ task[t].handle = NullHandle
    /\ task' = [task EXCEPT ![t] = Return(@, -EBADF)]
    /\ curr' = t
    /\ UNCHANGED <<handles, preempt, objs, ncalls>>
    /\ UNCHANGED fatVars

\* sys_close: exvfs_close(handle), the descriptor is cleared,
\* enable_preemption() and return 0
SysCloseDo ==
  \E t \in Threads :
    /\ At(t, "close_check")
    /\ task[t].handle # NullHandle
    /\ objs' = exvfs_close(objs, task[t].handle)
    /\ handles' = [handles EXCEPT ![task[t].fd] = NullHandle]
    /\ preempt' = enable_preemption(preempt)
    /\ task' = [task EXCEPT ![t] =
                  Return([@ EXCEPT !.log =
                            Append(@, Used("close", task[t].handle))], 0)]
    /\ curr' = t
    /\ UNCHANGED ncalls
    /\ UNCHANGED fatVars

\* sys_open: duplicate_user_path fails, the call returns what it returned
SysOpenCopyFails ==
  \E t \in Threads, ret \in {-EFAULT, -ENAMETOOLONG} :
    /\ CanCall(t)
    /\ task' = [task EXCEPT ![t] = Return(Enter("sys_open", -1), ret)]
    /\ curr' = t
    /\ ncalls' = ncalls + 1
    /\ UNCHANGED <<handles, preempt, objs>>
    /\ UNCHANGED fatVars

\* sys_open: compute_abs_path fails; 'end' enables preemption
SysOpenPathTooLong ==
  \E t \in Threads :
    /\ CanCall(t)
    /\ preempt' = enable_preemption(disable_preemption(preempt))
    /\ task' = [task EXCEPT ![t] =
                  Return(Enter("sys_open", -1), -ENAMETOOLONG)]
    /\ curr' = t
    /\ ncalls' = ncalls + 1
    /\ UNCHANGED <<handles, objs>>
    /\ UNCHANGED fatVars

\* sys_open: no free descriptor; 'no_fds' goes to 'end'
SysOpenNoFds ==
  \E t \in Threads :
    /\ CanCall(t)
    /\ ~is_fd_valid(get_free_handle_num(handles))
    /\ preempt' = enable_preemption(disable_preemption(preempt))
    /\ task' = [task EXCEPT ![t] = Return(Enter("sys_open", -1), -EMFILE)]
    /\ curr' = t
    /\ ncalls' = ncalls + 1
    /\ UNCHANGED <<handles, objs>>
    /\ UNCHANGED fatVars

\* sys_open: exvfs_open fails; 'end' enables preemption
SysOpenFails ==
  \E t \in Threads :
    /\ CanCall(t)
    /\ is_fd_valid(get_free_handle_num(handles))
    /\ preempt' = enable_preemption(disable_preemption(preempt))
    /\ task' = [task EXCEPT ![t] = Return(Enter("sys_open", -1), -ENOENT)]
    /\ curr' = t
    /\ ncalls' = ncalls + 1
    /\ UNCHANGED <<handles, objs>>
    /\ UNCHANGED fatVars

\* sys_open: exvfs_open gives a handle, the free descriptor takes it
SysOpen ==
  \E t \in Threads :
    /\ CanCall(t)
    /\ is_fd_valid(get_free_handle_num(handles))
    /\ Len(objs) < MaxOpens
    /\ LET free_fd == get_free_handle_num(handles)
           h == Len(objs) + 1
       IN  /\ objs' = exvfs_open(objs)
           /\ handles' = [handles EXCEPT ![free_fd] = h]
           /\ task' = [task EXCEPT ![t] =
                         Return([Enter("sys_open", free_fd) EXCEPT
                                   !.handle = h,
                                   !.log = <<[op |-> "open", h |-> h,
                                              open |-> TRUE]>>],
                                free_fd)]
    /\ preempt' = enable_preemption(disable_preemption(preempt))
    /\ curr' = t
    /\ ncalls' = ncalls + 1
    /\ UNCHANGED fatVars

\* sys_stat64: copy_str_from_user fails (-EFAULT) or the path is too long
SysStatCopyFails ==
  \E t \in Threads, ret \in {-EFAULT, -ENAMETOOLONG} :
    /\ CanCall(t)
    /\ task' = [task EXCEPT ![t] = Return(Enter("sys_stat64", -1), ret)]
    /\ curr' = t
    /\ ncalls' = ncalls + 1
    /\ UNCHANGED <<handles, preempt, objs>>
    /\ UNCHANGED fatVars

\* sys_stat64: compute_abs_path, between disable_preemption() and
\* enable_preemption(), fails
SysStatPathTooLong ==
  \E t \in Threads :
    /\ CanCall(t)
    /\ preempt' = enable_preemption(disable_preemption(preempt))
    /\ task' = [task EXCEPT ![t] =
                  Return(Enter("sys_stat64", -1), -ENAMETOOLONG)]
    /\ curr' = t
    /\ ncalls' = ncalls + 1
    /\ UNCHANGED <<handles, objs>>
    /\ UNCHANGED fatVars

\* sys_stat64 up to the call of exvfs_open: the path is copied and made
\* absolute
SysStatCall ==
  \E t \in Threads :
    /\ CanCall(t)
    /\ preempt' = enable_preemption(disable_preemption(preempt))
    /\ task' = [task EXCEPT ![t] =
                  [Enter("sys_stat64", -1) EXCEPT !.pc = "stat_open"]]
    /\ curr' = t
    /\ ncalls' = ncalls + 1
    /\ UNCHANGED <<handles, objs>>
    /\ UNCHANGED fatVars

\* sys_stat64: exvfs_open fails, the call returns what it returned
SysStatOpenFails ==
  \E t \in Threads :
    /\ At(t, "stat_open")
    /\ task' = [task EXCEPT ![t] = Return(@, -ENOENT)]
    /\ curr' = t
    /\ UNCHANGED <<handles, preempt, objs, ncalls>>
    /\ UNCHANGED fatVars

\* sys_stat64: exvfs_open gives the handle h
SysStatOpen ==
  \E t \in Threads :
    /\ At(t, "stat_open")
    /\ Len(objs) < MaxOpens
    /\ objs' = exvfs_open(objs)
    /\ task' = [task EXCEPT ![t] =
                  [@ EXCEPT !.pc = "stat_lock",
                            !.handle = Len(objs) + 1,
                            !.log = <<[op |-> "open", h |-> Len(objs) + 1,
                                       open |-> TRUE]>>]]
    /\ curr' = t
    /\ UNCHANGED <<handles, preempt, ncalls>>
    /\ UNCHANGED fatVars

\* sys_stat64: exvfs_stat(h) between exvfs_shlock(h) and exvfs_shunlock(h);
\* rc is what exvfs_stat returned
SysStatLocked ==
  \E t \in Threads, rc \in {0, -ENOENT} :
    /\ At(t, "stat_lock")
    /\ LET h == task[t].handle
           locked == exvfs_shlock(objs, h)
       IN  /\ objs' = exvfs_shunlock(locked, h)
           /\ task' = [task EXCEPT ![t] =
                         [@ EXCEPT !.pc = "stat_after",
                                   !.ret = rc,
                                   !.log = @ \o <<Used("shlock", h),
                                                  Used("stat", h),
                                                  Used("shunlock", h)>>]]
    /\ curr' = t
    /\ UNCHANGED <<handles, preempt, ncalls>>
    /\ UNCHANGED fatVars

\* sys_stat64: exvfs_stat failed; 'out' closes the handle and returns rc
SysStatFailed ==
  \E t \in Threads :
    /\ At(t, "stat_after")
    /\ task[t].ret < 0
    /\ objs' = exvfs_close(objs, task[t].handle)
    /\ task' = [task EXCEPT ![t] =
                  Return([@ EXCEPT !.log =
                            Append(@, Used("close", task[t].handle))],
                         task[t].ret)]
    /\ curr' = t
    /\ UNCHANGED <<handles, preempt, ncalls>>
    /\ UNCHANGED fatVars

\* sys_stat64: copy_to_user succeeds; 'out' closes the handle and returns rc
SysStatCopyOut ==
  \E t \in Threads :
    /\ At(t, "stat_after")
    /\ task[t].ret >= 0
    /\ objs' = exvfs_close(objs, task[t].handle)
    /\ task' = [task EXCEPT ![t] =
                  Return([@ EXCEPT !.log =
                            Append(@, Used("close", task[t].handle))], 0)]
    /\ curr' = t
    /\ UNCHANGED <<handles, preempt, ncalls>>
    /\ UNCHANGED fatVars

\* sys_stat64: copy_to_user fails, 'return -EFAULT'
SysStatCopyOutFails ==
  \E t \in Threads :
    /\ At(t, "stat_after")
    /\ task[t].ret >= 0
    /\ task' = [task EXCEPT ![t] = Return(@, -EFAULT)]
    /\ curr' = t
    /\ UNCHANGED <<handles, preempt, objs, ncalls>>
    /\ UNCHANGED fatVars

\* sys_read: get_fs_handle(fd) gives no handle, return -EBADF
SysReadBadFd ==
  \E t \in Threads, fd \in FdArgs :
    /\ CanCall(t)
    /\ LET g == get_fs_handle(fd, preempt)
       IN  /\ g.handle = NullHandle
           /\ preempt' = g.preempt
           /\ task' = [task EXCEPT ![t] =
                         Return(Enter("sys_read", fd), -EBADF)]
    /\ curr' = t
    /\ ncalls' = ncalls + 1
    /\ UNCHANGED <<handles, objs>>
    /\ UNCHANGED fatVars

\* sys_read: get_fs_handle(fd) gives the handle of the descriptor
SysReadCall ==
  \E t \in Threads, fd \in FdArgs :
    /\ CanCall(t)
    /\ LET g == get_fs_handle(fd, preempt)
       IN  /\ g.handle # NullHandle
           /\ preempt' = g.preempt
           /\ task' = [task EXCEPT ![t] =
                         [Enter("sys_read", fd) EXCEPT
                            !.pc = "read_lock", !.handle = g.handle]]
    /\ curr' = t
    /\ ncalls' = ncalls + 1
    /\ UNCHANGED <<handles, objs>>
    /\ UNCHANGED fatVars

\* what a call on the handle h leads to: the next place of the call, or,
\* when h is NULL or an object exvfs_close destroyed, either that or a panic
AfterUse(h, next) == IF IsOpen(h) THEN {next} ELSE {next, "panic"}

\* sys_read: exvfs_shlock(handle)
SysReadLock ==
  \E t \in Threads :
    /\ At(t, "read_lock")
    /\ \E pc \in AfterUse(task[t].handle, "read_read") :
         task' = [task EXCEPT ![t] =
                    [@ EXCEPT !.pc = pc,
                              !.log = Append(@, Used("shlock",
                                                     task[t].handle))]]
    /\ objs' = exvfs_shlock(objs, task[t].handle)
    /\ curr' = t
    /\ UNCHANGED <<handles, preempt, ncalls>>
    /\ UNCHANGED fatVars

\* sys_read: exvfs_read(curr->pi->handles[fd], ...); the handle is read from
\* the descriptor again, and ret is what exvfs_read returned
SysReadRead ==
  \E t \in Threads, ret \in {-EFAULT, 0, 1} :
    /\ At(t, "read_read")
    /\ \E pc \in AfterUse(handles[task[t].fd], "read_unlock") :
         task' = [task EXCEPT ![t] =
                    [@ EXCEPT !.pc = pc,
                              !.ret = ret,
                              !.log = Append(@, Used("read",
                                                     handles[task[t].fd]))]]
    /\ curr' = t
    /\ UNCHANGED <<handles, preempt, objs, ncalls>>
    /\ UNCHANGED fatVars

\* sys_read: exvfs_shunlock(handle)
SysReadUnlock ==
  \E t \in Threads :
    /\ At(t, "read_unlock")
    /\ \E pc \in AfterUse(task[t].handle, "read_copy") :
         task' = [task EXCEPT ![t] =
                    [@ EXCEPT !.pc = pc,
                              !.log = Append(@, Used("shunlock",
                                                     task[t].handle))]]
    /\ objs' = exvfs_shunlock(objs, task[t].handle)
    /\ curr' = t
    /\ UNCHANGED <<handles, preempt, ncalls>>
    /\ UNCHANGED fatVars

\* sys_read: what was read is copied to the user's buffer, and the call
\* returns ret, or -EFAULT when copy_to_user fails
SysReadReturn ==
  \E t \in Threads, copied \in BOOLEAN :
    /\ At(t, "read_copy")
    /\ task[t].ret > 0 \/ copied
    /\ task' = [task EXCEPT ![t] =
                  Return(@, IF task[t].ret > 0 /\ ~copied
                            THEN -EFAULT ELSE task[t].ret)]
    /\ curr' = t
    /\ UNCHANGED <<handles, preempt, objs, ncalls>>
    /\ UNCHANGED fatVars

NextSys ==
  \/ SysCloseCall
  \/ SysCloseBadFd
  \/ SysCloseDo
  \/ SysOpenCopyFails
  \/ SysOpenPathTooLong
  \/ SysOpenNoFds
  \/ SysOpenFails
  \/ SysOpen
  \/ SysStatCopyFails
  \/ SysStatPathTooLong
  \/ SysStatCall
  \/ SysStatOpenFails
  \/ SysStatOpen
  \/ SysStatLocked
  \/ SysStatFailed
  \/ SysStatCopyOut
  \/ SysStatCopyOutFails
  \/ SysReadBadFd
  \/ SysReadCall
  \/ SysReadLock
  \/ SysReadRead
  \/ SysReadUnlock
  \/ SysReadReturn

SpecSys == InitSys /\ [][NextSys]_vars

TypeOKSys ==
  /\ preempt \in 0..MaxCalls
  /\ \A fd \in Fds : handles[fd] \in 0..MaxOpens

-----------------------------------------------------------------------------
(* C24: the nesting count of disable_preemption() at the return of         *)
(* sys_close, sys_open and sys_stat64.                                     *)

\* thread t returns from a system call to user mode in this step
Returned(t) ==
  /\ task'[t].pc = "user"
  /\ \/ task[t].pc \notin {"user", "panic"}
     \/ task[t].pc = "user" /\ curr' = t /\ ncalls' = ncalls + 1

\* a call of one of the system calls in 'calls' returns with the nesting
\* count it was entered with
BalancedReturn(calls) ==
  \A t \in Threads :
    Returned(t) /\ task'[t].call \in calls => preempt' = task'[t].pre0

\* C24: every call of sys_close, sys_open and sys_stat64 returns with the
\* nesting count of disable_preemption() equal to its value on entry, on
\* every path, the -EBADF path of sys_close included.
C24_PreemptionCountRestored ==
  [][BalancedReturn({"sys_close", "sys_open", "sys_stat64"})]_vars

\* sys_open and sys_stat64 alone do return with the count they were entered
\* with
C24_OpenAndStatRestoreCount ==
  [][BalancedReturn({"sys_open", "sys_stat64"})]_vars

\* sys_close returned -EBADF and left preemption disabled
C24_BadCloseLeavesPreemptionDisabled ==
  \E t \in Threads :
    /\ task[t].pc = "user"
    /\ task[t].call = "sys_close"
    /\ task[t].ret = -EBADF
    /\ task[t].pre0 = 0
    /\ preempt = 1
    /\ ncalls = 1

-----------------------------------------------------------------------------
(* C25: sys_stat64 closes the handle it opened.                            *)

\* thread t is back from a sys_stat64 whose exvfs_open gave a handle
StatReturned(t) ==
  /\ task[t].pc = "user"
  /\ task[t].call = "sys_stat64"
  /\ task[t].handle # NullHandle

\* the places in the log of thread t where 'op' was called on its handle
CallsOn(t, op) ==
  {i \in DOMAIN task[t].log :
     task[t].log[i].op = op /\ task[t].log[i].h = task[t].handle}

\* the handle of thread t was closed once, and each shared lock taken on it
\* was released before that
ClosedOnceUnlocked(t) ==
  /\ Cardinality(CallsOn(t, "close")) = 1
  /\ ~IsOpen(task[t].handle)
  /\ \A c \in CallsOn(t, "close") :
       /\ task[t].log[c].open
       /\ \A l \in CallsOn(t, "shlock") :
            \E u \in CallsOn(t, "shunlock") : l < u /\ u < c
       /\ Cardinality(CallsOn(t, "shlock")) =
            Cardinality(CallsOn(t, "shunlock"))

\* C25: every handle sys_stat64 gets from a successful exvfs_open is passed
\* to exvfs_close exactly once before sys_stat64 returns, on every path
\* (after a successful stat, a failing exvfs_stat, a failing copy_to_user),
\* and the shared lock taken on it is released before that close.
C25_StatClosesItsHandle ==
  \A t \in Threads : StatReturned(t) => ClosedOnceUnlocked(t)

\* on the paths other than the failing copy_to_user the handle is closed
\* once, after the lock was released
C25_ClosedUnlessCopyFails ==
  \A t \in Threads :
    StatReturned(t) /\ task[t].ret # -EFAULT => ClosedOnceUnlocked(t)

\* sys_stat64 returned -EFAULT and its handle was never closed
C25_HandleLeftOpen ==
  \E t \in Threads :
    /\ StatReturned(t)
    /\ task[t].ret = -EFAULT
    /\ IsOpen(task[t].handle)
    /\ CallsOn(t, "close") = {}
    /\ CallsOn(t, "shunlock") # {}

\* sys_stat64 returned after a failing exvfs_stat with its handle closed
C25_ClosedAfterFailingStat ==
  \E t \in Threads :
    /\ StatReturned(t)
    /\ task[t].ret = -ENOENT
    /\ ClosedOnceUnlocked(t)

-----------------------------------------------------------------------------
(* C26: sys_read of one thread and sys_close of another on one descriptor. *)

\* the calls sys_read of thread t has made on handles so far
ReadLog(t) == IF task[t].call = "sys_read" THEN task[t].log ELSE <<>>

\* a call made on the handle get_fs_handle gave, while it is an open handle
GoodUse(t, u) ==
  /\ u.h # NullHandle
  /\ u.open
  /\ u.h = task[t].handle

\* C26: with sys_read(fd) and sys_close(fd) of two threads interleaved,
\* sys_read never uses a handle after sys_close passed it to exvfs_close:
\* the handle it locks, the handle it reads from (read again from
\* handles[fd]) and the handle it unlocks are one open, non-null handle.
C26_ReadUsesOneOpenHandle ==
  \A t \in Threads :
    \A i \in DOMAIN ReadLog(t) : GoodUse(t, ReadLog(t)[i])

\* a sys_read whose handle nobody closed makes all its calls on that handle
C26_ReadOfHandleNeverClosed ==
  \A t \in Threads :
    IsOpen(task[t].handle) =>
      \A i \in DOMAIN ReadLog(t) : GoodUse(t, ReadLog(t)[i])

\* the other thread is back from a sys_close of the descriptor thread t reads
ClosedByOther(t) ==
  \E o \in Threads \ {t} :
    /\ task[o].pc = "user"
    /\ task[o].call = "sys_close"
    /\ task[o].fd = task[t].fd
    /\ task[o].ret = 0

\* sys_read locked a handle the other thread's sys_close had destroyed
C26_LockedAfterClose ==
  \E t \in Threads :
    /\ ClosedByOther(t)
    /\ Len(ReadLog(t)) = 1
    /\ ReadLog(t)[1].op = "shlock"
    /\ ReadLog(t)[1].h = task[t].handle
    /\ ~ReadLog(t)[1].open

\* sys_read locked the open handle and then passed NULL to exvfs_read
C26_ReadFromNull ==
  \E t \in Threads :
    /\ ClosedByOther(t)
    /\ Len(ReadLog(t)) = 2
    /\ ReadLog(t)[1].open
    /\ ReadLog(t)[2].op = "read"
    /\ ReadLog(t)[2].h = NullHandle

\* sys_read passed to exvfs_read the handle of a file opened on the same
\* descriptor after its own handle was closed
C26_ReadFromOtherHandle ==
  \E t \in Threads :
    /\ Len(ReadLog(t)) >= 2
    /\ ReadLog(t)[2].op = "read"
    /\ ReadLog(t)[2].open
    /\ ReadLog(t)[2].h # task[t].handle

\* a sys_read that nobody disturbed returned what exvfs_read gave
C26_UndisturbedRead ==
  \E t \in Threads :
    /\ task[t].pc = "user"
    /\ task[t].ret = 1
    /\ Len(ReadLog(t)) = 3
    /\ \A i \in 1..3 : GoodUse(t, ReadLog(t)[i])

====
